---- MODULE Spec2Model ----
(***************************************************************************)
(* Model of the MCP chat orchestrator (ollama_bot.py), of the persistent  *)
(* MCP client server (mcp_client.py), of the RAG index of the MCP server   *)
(* (mcp_server.py) and of the chatbot with long-term memory (testBot.py).  *)
(*                                                                         *)
(* Generated text is a sequence of lexical tokens; the fenced-block        *)
(* pattern TOOL_BLOCK_RE and json.loads are computed on those tokens.      *)
(***************************************************************************)
EXTENDS Integers, Sequences, FiniteSets, TLC

VARIABLES
    \* ollama_bot.py: module globals (discovery cache) and the wall clock
    cached_tools, last_refresh, cached_resources, last_res_refresh, clock,
    lastDisc,
    \* ollama_bot.py: main() locals and what main() emits
    pc, tool_names, history, gen_blocks, assistant_text,
    resource_specs, tool_specs, resource_results, tool_results,
    provider_calls, shown,
    \* mcp_client.py: app.state, the context managers it created, the handlers
    http_cm, session_cm, session, transports, sessions, nextId,
    hnd, opLog, sdLog,
    \* mcp_client.py: what the provider lists as resources and as resource
    \* templates, and the answer of the /resources endpoint
    res_list, tmpl_list, listed,
    \* mcp_server.py: the data files, the module globals of the RAG index, the
    \* collection in the persistent store, the position in a call of
    \* _initialize_rag_database and what the call returned
    data_files, file_hashes, collection_cache, store, rag_pc, rag_ret,
    \* testBot.py: main() locals, the memory file, and the latest compaction
    chat_history, long_memory, memory_file, mem_pc, turns, compaction

cacheVars == <<cached_tools, last_refresh, cached_resources, last_res_refresh,
               clock, lastDisc>>
botVars == <<pc, tool_names, history, gen_blocks, assistant_text,
             resource_specs, tool_specs, resource_results, tool_results,
             provider_calls, shown>>
clientVars == <<http_cm, session_cm, session, transports, sessions, nextId,
                hnd, opLog, sdLog>>
listVars == <<res_list, tmpl_list, listed>>
ragVars == <<data_files, file_hashes, collection_cache, store, rag_pc, rag_ret>>
memVars == <<chat_history, long_memory, memory_file, mem_pc, turns, compaction>>
vars == <<cacheVars, botVars, clientVars, listVars, ragVars, memVars>>

(***************************************************************************)
(* Bounds of the model.                                                    *)
(***************************************************************************)
MaxBlocks == 2      \* fenced blocks or prose segments in one generated text
MaxListLen == 2     \* items in one provider listing
MaxTime == 3        \* last value of the wall clock
MaxHistory == 5     \* entries of the transcript
MaxConn == 3        \* transport/session pairs the client creates
NumHandlers == 2    \* endpoint handlers in flight at once
MaxVersion == 2     \* times one data file is written
MaxTurns == 4       \* exchanges of the long-memory chatbot over its runs

(***************************************************************************)
(* Generic helpers.                                                        *)
(***************************************************************************)
NoneV == [t |-> "none", v |-> <<>>]

Min(S) == CHOOSE x \in S : \A y \in S : x <= y

RECURSIVE Concat(_)
Concat(ss) == IF ss = <<>> THEN <<>> ELSE Head(ss) \o Concat(Tail(ss))

SeqsUpTo(S, n) == UNION {[1..k -> S] : k \in 0..n}

(***************************************************************************)
(* Tokens of generated text.  "FENCE" is the three backticks, "mcp" the tag, *)
(* "ws" a run of whitespace, "txt" prose; "tool:" etc. are a JSON key with *)
(* its colon; a name or URI token is a JSON string literal.                *)
(***************************************************************************)
KeyToks == {"tool:", "arguments:", "resource:", "message:", "x:",
            "<PARAMETER>:", "query:"}
StrToks == {"echo", "search", "frobnicate", "hi", "restaurant://menu/today",
            "http://menu/today", "<TOOL_NAME>", "<VALUE>", "<COMPLETE_URI>",
            "rag_search", "file_search", "restaurant menu", "menu.txt"}

\* str.startswith("restaurant://") on the string literals of the model
StartsWithRestaurant(s) == s \in {"restaurant://menu/today"}

\* Segments a generated reply is made of
Fence(body) == <<"FENCE", "mcp", "ws">> \o body \o <<"ws", "FENCE">>
ToolBody(name) == <<"{", "tool:", name, ",", "arguments:", "{", "}", "}">>
SegmentText(b) ==
    CASE b = "tool_echo"   -> Fence(ToolBody("echo"))
      [] b = "tool_search" -> Fence(ToolBody("search"))
      [] b = "tool_frob"   -> Fence(ToolBody("frobnicate"))
      [] b = "tool_echo_hi" ->
             Fence(<<"{", "tool:", "echo", ",", "arguments:",
                     "{", "message:", "hi", "}", "}">>)
      [] b = "res_menu"    -> Fence(<<"{", "resource:", "restaurant://menu/today", "}">>)
      [] b = "tool_and_res" ->
             Fence(<<"{", "tool:", "echo", ",", "arguments:", "{", "}", ",",
                     "resource:", "restaurant://menu/today", "}">>)
      [] b = "tool_noargs" -> Fence(<<"{", "tool:", "echo", "}">>)
      [] b = "bad_args_null" ->
             Fence(<<"{", "tool:", "echo", ",", "arguments:", "null", "}">>)
      [] b = "bad_args_list" ->
             Fence(<<"{", "tool:", "echo", ",", "arguments:", "[]", "}">>)
      [] b = "bad_args_str" ->
             Fence(<<"{", "tool:", "echo", ",", "arguments:", "hi", "}">>)
      [] b = "bad_tool_null" ->
             Fence(<<"{", "tool:", "null", ",", "arguments:", "{", "}", "}">>)
      [] b = "bad_nobrace" -> Fence(<<"{", "tool:", "echo">>)
      [] b = "bad_json"    -> Fence(<<"{", "tool:", "}">>)
      [] b = "bad_shape"   -> Fence(<<"{", "x:", "echo", "}">>)
      [] b = "bad_scheme"  -> Fence(<<"{", "resource:", "http://menu/today", "}">>)
      [] b = "bad_nojson"  -> Fence(<<"txt">>)
      [] b = "prose"       -> <<"txt">>

WellFormedTool == {"tool_echo", "tool_search", "tool_frob", "tool_echo_hi"}
WellFormedRes == {"res_menu"}
Malformed ==
    {"bad_nobrace", "bad_json", "bad_shape", "bad_scheme", "bad_nojson",
     "bad_args_null", "bad_args_list", "bad_args_str", "bad_tool_null"}
\* A block that is a valid tool call and names a resource as well
Ambiguous == {"tool_and_res"}
\* A block with a string tool and no arguments key
NoArguments == {"tool_noargs"}
Segments ==
    WellFormedTool \cup WellFormedRes \cup Ambiguous \cup NoArguments
        \cup Malformed \cup {"prose"}

\* The text of a reply: its segments, one per line
RECURSIVE Render(_)
Render(bs) ==
    IF bs = <<>> THEN <<>>
    ELSE IF Len(bs) = 1 THEN SegmentText(bs[1])
    ELSE SegmentText(bs[1]) \o <<"ws">> \o Render(Tail(bs))

(***************************************************************************)
(* TOOL_BLOCK_RE = ```mcp\s*(\{.*?\})\s*``` with re.DOTALL                 *)
(***************************************************************************)
RECURSIVE SkipWs(_, _)
SkipWs(t, i) == IF i <= Len(t) /\ t[i] = "ws" THEN SkipWs(t, i + 1) ELSE i

\* Indices k of a "}" that closes the lazy group opened at j: the rest of the
\* pattern, \s*```, matches right after it
GroupEnds(t, j) ==
    {k \in (j + 1)..Len(t) :
        /\ t[k] = "}"
        /\ SkipWs(t, k + 1) <= Len(t)
        /\ t[SkipWs(t, k + 1)] = "FENCE"}

\* The match of the pattern that starts at index p, if there is one
MatchAt(t, p) ==
    LET j == SkipWs(t, p + 2) IN
    IF /\ p + 1 <= Len(t)
       /\ t[p] = "FENCE"
       /\ t[p + 1] = "mcp"
       /\ j <= Len(t)
       /\ t[j] = "{"
       /\ GroupEnds(t, j) # {}
    THEN LET k == Min(GroupEnds(t, j)) IN
         [ok |-> TRUE, group |-> SubSeq(t, j, k), end |-> SkipWs(t, k + 1)]
    ELSE [ok |-> FALSE, group |-> <<>>, end |-> 0]

\* TOOL_BLOCK_RE.findall(text): the groups of the non-overlapping matches,
\* scanning left to right
RECURSIVE FindAllFrom(_, _)
FindAllFrom(t, p) ==
    IF p > Len(t) THEN <<>>
    ELSE LET m == MatchAt(t, p) IN
         IF m.ok THEN <<m.group>> \o FindAllFrom(t, m.end + 1)
         ELSE FindAllFrom(t, p + 1)

FindAll(t) == FindAllFrom(t, 1)

\* re.sub(TOOL_BLOCK_RE, "", text)
RECURSIVE SubFrom(_, _)
SubFrom(t, p) ==
    IF p > Len(t) THEN <<>>
    ELSE LET m == MatchAt(t, p) IN
         IF m.ok THEN SubFrom(t, m.end + 1)
         ELSE <<t[p]>> \o SubFrom(t, p + 1)

\* str.strip()
RECURSIVE Strip(_)
Strip(t) ==
    IF t = <<>> THEN t
    ELSE IF Head(t) = "ws" THEN Strip(Tail(t))
    ELSE IF t[Len(t)] = "ws" THEN Strip(SubSeq(t, 1, Len(t) - 1))
    ELSE t

(***************************************************************************)
(* json.loads on the tokens of a group.                                    *)
(***************************************************************************)
NotWs(x) == x # "ws"

\* Index just after the JSON value that starts at i; 0 when none parses
RECURSIVE ValueEnd(_, _), MembersEnd(_, _)
ValueEnd(t, i) ==
    IF i > Len(t) THEN 0
    ELSE IF t[i] \in StrToks \cup {"null", "[]"} THEN i + 1
    ELSE IF t[i] = "{" THEN
        IF i + 1 <= Len(t) /\ t[i + 1] = "}" THEN i + 2
        ELSE LET e == MembersEnd(t, i + 1) IN
             IF e # 0 /\ e <= Len(t) /\ t[e] = "}" THEN e + 1 ELSE 0
    ELSE 0

MembersEnd(t, i) ==
    IF i > Len(t) \/ t[i] \notin KeyToks THEN 0
    ELSE LET e == ValueEnd(t, i + 1) IN
         IF e = 0 THEN 0
         ELSE IF e <= Len(t) /\ t[e] = "," THEN MembersEnd(t, e + 1)
         ELSE e

\* The Python value of the JSON value at t[i..e-1]
ValueOf(t, i, e) ==
    IF t[i] \in StrToks THEN [t |-> "str", v |-> <<t[i]>>]
    ELSE IF t[i] = "{" THEN [t |-> "dict", v |-> SubSeq(t, i, e - 1)]
    ELSE IF t[i] = "[]" THEN [t |-> "list", v |-> <<>>]
    ELSE NoneV

\* The dict of the members that start at i (a later duplicate key wins)
RECURSIVE MembersDict(_, _, _)
MembersDict(t, i, acc) ==
    IF i > Len(t) \/ t[i] \notin KeyToks THEN acc
    ELSE LET e == ValueEnd(t, i + 1)
             d == [k \in DOMAIN acc \cup {t[i]} |->
                      IF k = t[i] THEN ValueOf(t, i + 1, e) ELSE acc[k]]
         IN IF e <= Len(t) /\ t[e] = "," THEN MembersDict(t, e + 1, d) ELSE d

EmptyDict == [k \in {} |-> NoneV]

\* json.loads(match): ok is FALSE where json.loads raises
json_loads(g) ==
    LET t == SelectSeq(g, NotWs) IN
    IF t # <<>> /\ ValueEnd(t, 1) = Len(t) + 1
    THEN [ok |-> TRUE, data |-> MembersDict(t, 2, EmptyDict)]
    ELSE [ok |-> FALSE, data |-> EmptyDict]

\* dict.get(key, default)
Get(d, k, default) == IF k \in DOMAIN d THEN d[k] ELSE default

(***************************************************************************)
(* parse_tool_call / parse_resource_read                                   *)
(***************************************************************************)
ToolCallOf(g) ==
    LET j == json_loads(g)
        tool == Get(j.data, "tool:", NoneV)
        arguments == Get(j.data, "arguments:", [t |-> "dict", v |-> <<"{", "}">>])
    IN IF j.ok /\ tool.t = "str" /\ arguments.t = "dict"
       THEN <<[tool |-> tool.v[1], arguments |-> arguments.v]>>
       ELSE <<>>

ResourceReadOf(g) ==
    LET j == json_loads(g)
        uri == Get(j.data, "resource:", NoneV)
    IN IF j.ok /\ uri.t = "str" /\ StartsWithRestaurant(uri.v[1])
       THEN <<[uri |-> uri.v[1]]>>
       ELSE <<>>

RECURSIVE FlatMapTool(_), FlatMapRes(_)
FlatMapTool(gs) ==
    IF gs = <<>> THEN <<>> ELSE ToolCallOf(Head(gs)) \o FlatMapTool(Tail(gs))
FlatMapRes(gs) ==
    IF gs = <<>> THEN <<>> ELSE ResourceReadOf(Head(gs)) \o FlatMapRes(Tail(gs))

parse_tool_call(text) == FlatMapTool(FindAll(text))

parse_resource_read(text) == FlatMapRes(FindAll(text))

(***************************************************************************)
(* Discovery cache: discover_tools / discover_resources                    *)
(***************************************************************************)
\* Line 34: MCP_TOOL_TTL, seconds, read from the environment
MCP_TOOL_TTL == 1

StartTime == MCP_TOOL_TTL + 1   \* time.time() is far past the epoch

ProviderTools == {"echo", "search"}
ProviderURIs == {"restaurant://menu/today", "restaurant://menu/{date}"}

\* str(t) of a dict item {"name": n}
DictRepr(n) ==
    CASE n = "echo" -> "{name: echo}"
      [] n = "search" -> "{name: search}"
      [] OTHER -> "{}"

\* Every string a cache can hold, in the order of Python's str comparison
SortedUniverse ==
    <<"echo", "restaurant://menu/today", "restaurant://menu/{date}", "search",
      "{name: echo}", "{name: search}", "{}">>

Range(s) == {s[i] : i \in DOMAIN s}

\* sorted(set(names))
AsListed(names) == names

SortedSet(names) ==
    LET present(x) == x \in Range(names) IN SelectSeq(SortedUniverse, present)

\* Items of a /tools response: {"name": n} (n = "" stands for a missing or
\* empty name) or a bare string
DictItems == [shape : {"dict"}, name : ProviderTools \cup {""}]
StrItems == [shape : {"str"}, name : ProviderTools]

\* Items of a /resources response; discover_resources reads only "uri"
\* ("" stands for a missing or null uri)
ResourceItems == [uri : ProviderURIs \cup {""}]

FailStatus == {"unreachable", "http_error", "bad_json"}

Failures == [status : FailStatus, items : {<<>>}]

\* Listings of dicts, as the client's /tools endpoint builds them
\* (mcp_client.py:90)
ClientToolResponses ==
    [status : {"ok"}, items : SeqsUpTo(DictItems, MaxListLen)] \cup Failures

\* Every listing discover_tools accepts: dicts, bare strings, or both mixed
MixedListings ==
    {<<[shape |-> "dict", name |-> "echo"], [shape |-> "str", name |-> "search"]>>,
     <<[shape |-> "str", name |-> "echo"], [shape |-> "dict", name |-> "search"]>>}

ToolResponses ==
    ClientToolResponses
        \cup [status : {"ok"},
              items : SeqsUpTo(StrItems, MaxListLen) \cup MixedListings]

ResourceResponses ==
    [status : {"ok"}, items : SeqsUpTo(ResourceItems, MaxListLen)] \cup Failures

\* Lines 58-61: the name list of a tool listing; ok is FALSE where t.get
\* raises because a bare string follows a dict
ToolNamesOf(tools) ==
    LET isDict(t) == t.shape = "dict"
        named(t) == t.name # ""
    IN IF tools # <<>> /\ tools[1].shape = "dict"
       THEN [ok |-> \A i \in DOMAIN tools : isDict(tools[i]),
             names |-> [i \in DOMAIN SelectSeq(tools, named) |->
                           SelectSeq(tools, named)[i].name]]
       ELSE [ok |-> TRUE,
             names |-> [i \in DOMAIN tools |->
                           IF isDict(tools[i]) THEN DictRepr(tools[i].name)
                           ELSE tools[i].name]]

\* Lines 81-85: the URIs of a resource listing
UrisOf(items) ==
    LET hasUri(it) == it.uri # "" IN
    [i \in DOMAIN SelectSeq(items, hasUri) |-> SelectSeq(items, hasUri)[i].uri]

\* Lines 50, 73: the cached entry is served without a round trip
ServedFromCache(c, force, now) ==
    ~force /\ c.items # <<>> /\ (now - c.ts) < MCP_TOOL_TTL

\* Lines 64-66, 88-89: what a failed refresh leaves in the entry
RefreshFailedClears(c, now) == [items |-> <<>>, ts |-> c.ts]

RefreshFailed(c, now) == c

\* Lines 62-63, 86-87: what a successful refresh stores
RefreshedItemsOnly(names, now) == [items |-> SortedSet(names), ts |-> 0]

Refreshed(names, now) == [items |-> SortedSet(names), ts |-> now]

\* discover_tools(force) on the entry c at time now, the provider answering
\* resp: the new entry, whether the provider was contacted, whether the
\* refresh failed, and the returned list
discover_tools(c, force, now, resp) ==
    IF ServedFromCache(c, force, now)
    THEN [entry |-> c, contacted |-> FALSE, failed |-> FALSE, ret |-> c.items]
    ELSE LET n == ToolNamesOf(resp.items) IN
         IF resp.status = "ok" /\ n.ok
         THEN [entry |-> Refreshed(n.names, now), contacted |-> TRUE,
               failed |-> FALSE, ret |-> Refreshed(n.names, now).items]
         ELSE [entry |-> RefreshFailed(c, now), contacted |-> TRUE,
               failed |-> TRUE, ret |-> RefreshFailed(c, now).items]

discover_resources(c, force, now, resp) ==
    IF ServedFromCache(c, force, now)
    THEN [entry |-> c, contacted |-> FALSE, failed |-> FALSE, ret |-> c.items]
    ELSE IF resp.status = "ok"
         THEN [entry |-> Refreshed(UrisOf(resp.items), now), contacted |-> TRUE,
               failed |-> FALSE, ret |-> Refreshed(UrisOf(resp.items), now).items]
         ELSE [entry |-> RefreshFailed(c, now), contacted |-> TRUE,
               failed |-> TRUE, ret |-> RefreshFailed(c, now).items]

ToolEntry == [items |-> cached_tools, ts |-> last_refresh]
ResEntry == [items |-> cached_resources, ts |-> last_res_refresh]

\* What the provider offered in a response: the names (or URIs) read from
\* its listing, and whether it is a listing at all, that is a 200 answer
\* whose items are all dicts or all strings (line 57)
NothingOffered == [ok |-> FALSE, names |-> {}]

OfferedTools(resp) ==
    [ok |-> /\ resp.status = "ok"
            /\ \A i, j \in DOMAIN resp.items :
                  resp.items[i].shape = resp.items[j].shape,
     names |-> Range(ToolNamesOf(resp.items).names)]

OfferedResources(resp) ==
    [ok |-> resp.status = "ok",
     names |-> Range(UrisOf(resp.items))]

\* A call that follows a forced refresh of the same kind and is, like it, a
\* forced refresh answered with a listing of the same names
Again(kind, force, offered) ==
    /\ force
    /\ offered.ok
    /\ lastDisc.kind = kind
    /\ lastDisc.force
    /\ lastDisc.offered = offered

\* The record of the latest discovery call; seq flips at every call.  A call
\* served from the cache reads no response.
DiscRecord(kind, force, d, offered) ==
    [seq |-> 1 - lastDisc.seq, kind |-> kind, force |-> force,
     contacted |-> d.contacted, failed |-> d.failed, ret |-> d.ret,
     offered |-> IF d.contacted THEN offered ELSE NothingOffered,
     again |-> d.contacted /\ Again(kind, force, offered)]

NoDisc ==
    [seq |-> 0, kind |-> "none", force |-> FALSE,
     contacted |-> FALSE, failed |-> FALSE, ret |-> <<>>,
     offered |-> NothingOffered, again |-> FALSE]

(***************************************************************************)
(* Initial values: the module globals of ollama_bot.py (lines 38-44), the  *)
(* locals of main() before it runs, and app.state of mcp_client.py         *)
(* (lines 23-26).                                                          *)
(***************************************************************************)
CacheInit ==
    /\ cached_tools = <<>>
    /\ last_refresh = 0
    /\ cached_resources = <<>>
    /\ last_res_refresh = 0
    /\ clock = StartTime
    /\ lastDisc = NoDisc

BotInit ==
    /\ tool_names = <<>>
    /\ history = <<>>
    /\ gen_blocks = <<>>
    /\ assistant_text = <<>>
    /\ resource_specs = <<>>
    /\ tool_specs = <<>>
    /\ resource_results = <<>>
    /\ tool_results = <<>>
    /\ provider_calls = <<>>
    /\ shown = <<>>

Handlers == 1..NumHandlers
ConnIds == 1..MaxConn

\* A handler: where it is suspended (pc), the transport/session pair its
\* ensure_session created (obj, 0 for none), the context manager or session
\* it awaits (cls), what its failure cleanup closed so far (closed), and the
\* response it sent last (res)
Idle(res) == [pc |-> "idle", obj |-> 0, cls |-> 0, closed |-> <<>>, res |-> res]

IdleHandler == Idle("none")

\* The latest provider operation: which, on which session, in what state
NoOp == [op |-> "none", sess |-> 0, st |-> "none"]

\* The latest shutdown: what it closed, whether it raised, and how many
\* shutdowns ran since the last request (counted up to 2); opFailed says
\* that a provider operation raised on a session that was set, and that
\* session has been set and no shutdown has run ever since
NoShutdown == [n |-> 0, closed |-> <<>>, raised |-> FALSE, opFailed |-> FALSE]

ClientInit ==
    /\ http_cm = 0
    /\ session_cm = 0
    /\ session = 0
    /\ transports = [i \in ConnIds |-> "unused"]
    /\ sessions = [i \in ConnIds |-> "unused"]
    /\ nextId = 1
    /\ hnd = [h \in Handlers |-> IdleHandler]
    /\ opLog = NoOp
    /\ sdLog = NoShutdown

\* No listing was asked for yet
NoListing == [status |-> "none", items |-> <<>>, raised |-> "none"]

ListInit ==
    /\ res_list = <<>>
    /\ tmpl_list = <<>>
    /\ listed = NoListing

\* testBot.py: no compaction was made in the step just taken
NoCompaction == [happened |-> FALSE, removed |-> {}, passed |-> {}]

\* testBot.py lines 94-96, with no memory file yet
MemInit ==
    /\ chat_history = <<>>
    /\ long_memory = <<>>
    /\ memory_file = <<>>
    /\ mem_pc = "running"
    /\ turns = 0
    /\ compaction = NoCompaction

\* mcp_server.py: the text files of the data directory.  A file is absent
\* or present; ver counts its writes, and so stands for its content and
\* modification time
FileNames == {"menu.txt", "hours.md"}

NoFile == [ver |-> 0, present |-> FALSE]

\* Line 57: _file_hashes = {}
NoHashes == [f \in {} |-> [md5 |-> 0]]

\* The collection "restaurant_knowledge" of the persistent store: whether
\* it exists, and the documents added to it
NoCollection == [exists |-> FALSE, docs |-> {}]

\* What the latest call of _initialize_rag_database returned, while the
\* files are as they were when it returned
NoRet == [result |-> "none", docs |-> {}]

\* Lines 56-57, and a data directory and a store that are empty
RagInit ==
    /\ data_files = [f \in FileNames |-> NoFile]
    /\ file_hashes = NoHashes
    /\ collection_cache = "None"
    /\ store = NoCollection
    /\ rag_pc = "idle"
    /\ rag_ret = NoRet

(***************************************************************************)
(* The wall clock and the discovery calls on their own.                    *)
(***************************************************************************)
Tick ==
    /\ clock < MaxTime
    /\ clock' = clock + 1
    /\ UNCHANGED <<cached_tools, last_refresh, cached_resources,
                   last_res_refresh, lastDisc>>

\* discover_tools writing one fetched-at stamp for both entries
CallDiscoverToolsSharedStamp ==
    \E force \in BOOLEAN, resp \in ToolResponses :
        LET d == discover_tools(ToolEntry, force, clock, resp) IN
        /\ cached_tools' = d.entry.items
        /\ last_refresh' = d.entry.ts
        /\ last_res_refresh' = d.entry.ts
        /\ lastDisc' = DiscRecord("tools", force, d, OfferedTools(resp))
        /\ UNCHANGED <<cached_resources, clock>>

CallDiscoverTools ==
    \E force \in BOOLEAN, resp \in ToolResponses :
        LET d == discover_tools(ToolEntry, force, clock, resp) IN
        /\ cached_tools' = d.entry.items
        /\ last_refresh' = d.entry.ts
        /\ lastDisc' = DiscRecord("tools", force, d, OfferedTools(resp))
        /\ UNCHANGED <<cached_resources, last_res_refresh, clock>>

CallDiscoverResources ==
    \E force \in BOOLEAN, resp \in ResourceResponses :
        LET d == discover_resources(ResEntry, force, clock, resp) IN
        /\ cached_resources' = d.entry.items
        /\ last_res_refresh' = d.entry.ts
        /\ lastDisc' = DiscRecord("resources", force, d, OfferedResources(resp))
        /\ UNCHANGED <<cached_tools, last_refresh, clock>>

InitCache == CacheInit /\ BotInit /\ pc = "idle" /\ ClientInit /\ ListInit /\ RagInit /\ MemInit

NextCache ==
    \/ Tick /\ UNCHANGED <<botVars, clientVars, listVars, ragVars, memVars>>
    \/ CallDiscoverTools /\ UNCHANGED <<botVars, clientVars, listVars, ragVars, memVars>>
    \/ CallDiscoverResources /\ UNCHANGED <<botVars, clientVars, listVars, ragVars, memVars>>

SpecCache == InitCache /\ [][NextCache]_vars

(***************************************************************************)
(* The parser on its own: lines 291-292 of main() applied to a reply.      *)
(***************************************************************************)
ParseReply ==
    /\ pc = "parse"
    /\ resource_specs' = parse_resource_read(assistant_text)
    /\ tool_specs' = parse_tool_call(assistant_text)
    /\ resource_results' = <<>>
    /\ tool_results' = <<>>
    /\ provider_calls' = <<>>
    /\ pc' = "dispatch"
    /\ UNCHANGED <<tool_names, history, gen_blocks, assistant_text, shown>>

InitParse ==
    /\ CacheInit
    /\ ClientInit
    /\ ListInit /\ RagInit /\ MemInit
    /\ pc = "parse"
    /\ tool_names = <<>>
    /\ history = <<>>
    /\ gen_blocks \in SeqsUpTo(Segments, MaxBlocks)
    /\ assistant_text = Render(gen_blocks)
    /\ resource_specs = <<>>
    /\ tool_specs = <<>>
    /\ resource_results = <<>>
    /\ tool_results = <<>>
    /\ provider_calls = <<>>
    /\ shown = <<>>

NextParse == ParseReply /\ UNCHANGED <<cacheVars, clientVars, listVars, ragVars, memVars>>

SpecParse == InitParse /\ [][NextParse]_vars

(***************************************************************************)
(* ollama_bot.py: main().  A transcript entry is a role and a content; a   *)
(* content is one record shape for every kind of message: the tokens of a  *)
(* generated or typed text, the names listed by a prompt or notice, the    *)
(* results of an injected message.                                         *)
(***************************************************************************)
Content(kind, text, names, aux, results) ==
    [kind |-> kind, text |-> text, names |-> names, aux |-> aux,
     results |-> results]

Entry(role, content) == [role |-> role, content |-> content]

\* ", ".join(xs) if xs else none
JoinOr(xs, none) == IF xs = <<>> THEN <<none>> ELSE xs

\* ", ".join(xs)
RECURSIVE Join(_)
Join(xs) ==
    IF Len(xs) <= 1 THEN xs ELSE <<Head(xs), ",">> \o Join(Tail(xs))

\* Lines 93-95: base
PromptBase == <<"txt", "ws">>

ToolExample(name, key, value) ==
    Fence(<<"{", "tool:", name, ",", "arguments:", "{", key, value, "}", "}">>)

ResourceExample(uri) == Fence(<<"{", "resource:", uri, "}">>)

\* Lines 102-141: howto, with the two lists in it
PromptHowto(elenco, elenco_res) ==
    <<"txt", "ws", "txt">> \o elenco \o <<"txt", "ws", "txt">> \o elenco_res
        \o <<"txt", "ws", "txt", "ws">>
        \o ToolExample("<TOOL_NAME>", "<PARAMETER>:", "<VALUE>")
        \o <<"ws", "txt", "ws">>
        \o ResourceExample("<COMPLETE_URI>")
        \o <<"ws", "txt", "ws", "txt", "ws">>
        \o ToolExample("rag_search", "query:", "restaurant menu")
        \o <<"ws">>
        \o ToolExample("file_search", "query:", "menu.txt")
        \o <<"ws", "txt", "ws">>
        \o ResourceExample("restaurant://menu/today")
        \o <<"ws">>

\* Lines 144-146: the text for an empty tool list, which names the fence
PromptNoTools == <<"txt", "FENCE", "mcp", "FENCE", "txt">>

\* The prompt for an empty tool list, whatever the list
build_system_prompt_bare(tools, c, now, resp) ==
    [text |-> Content("system_prompt_no_tools", PromptBase \o PromptNoTools,
                      <<>>, <<>>, <<>>),
     called |-> FALSE,
     disc |-> [entry |-> c, contacted |-> FALSE, failed |-> FALSE,
               ret |-> c.items]]

\* Lines 92-146: build_system_prompt(tools), which reads the resource cache
\* through discover_resources(force=False) when tools is not empty
build_system_prompt(tools, c, now, resp) ==
    IF tools # <<>>
    THEN LET d == discover_resources(c, FALSE, now, resp) IN
         [text |-> Content("system_prompt",
                           PromptBase
                               \o PromptHowto(Join(tools),
                                              Join(JoinOr(d.ret, "(no resources)"))),
                           tools, JoinOr(d.ret, "(no resources)"), <<>>),
          called |-> TRUE, disc |-> d]
    ELSE [text |-> Content("system_prompt_no_tools", PromptBase \o PromptNoTools,
                           <<>>, <<>>, <<>>),
          called |-> FALSE,
          disc |-> [entry |-> c, contacted |-> FALSE, failed |-> FALSE,
                    ret |-> c.items]]

\* One result of a dispatch: what it is, the tool or URI it is about, the
\* payload or error text, and the valid names a not-available error lists
Result(kind, name, detail, valid) ==
    [kind |-> kind, name |-> name, detail |-> detail, valid |-> valid]

\* Lines 215-239: what call_client_http / read_client_resource return: the
\* client's JSON, or an error dict for a non-200 status or an exception
CallOutcomes ==
    {[ok |-> TRUE, detail |-> "hi"],
     [ok |-> FALSE, detail |-> "HTTP 500"],
     [ok |-> FALSE, detail |-> "ConnectionError"]}

\* Lines 298-303
ResourceMessage(uri, out) ==
    IF ~out.ok THEN Result("resource_error", uri, out.detail, <<>>)
    ELSE Result("resource_content", uri, out.detail, <<>>)

\* Line 309: spec["tool"] not in tool_names
ToolKnownAlways(tool, names) == TRUE

ToolKnown(tool, names) == tool \in Range(names)

\* Lines 310-311
NotAvailable(tool, names) ==
    Result("tool_not_available", tool, "", JoinOr(names, "(none)"))

\* Line 318: json.dumps(result['result'], ensure_ascii=False) of a payload
json_dumps_raw(p) == p

json_dumps(p) ==
    CASE p = "hi" -> "\"hi\""
      [] OTHER -> "null"

\* Lines 314-318
ToolMessageSwallows(tool, out) ==
    Result("tool_result", tool, json_dumps(out.detail), <<>>)

ToolMessage(tool, out) ==
    IF ~out.ok THEN Result("tool_error", tool, out.detail, <<>>)
    ELSE Result("tool_result", tool, json_dumps(out.detail), <<>>)

\* Line 322: if resource_results or tool_results
HasResultsAlways(rr, tr) == TRUE

HasResultsSucceeded(rr, tr) ==
    \/ \E i \in DOMAIN rr : rr[i].kind = "resource_content"
    \/ \E i \in DOMAIN tr : tr[i].kind = "tool_result"

HasResults(rr, tr) == rr # <<>> \/ tr # <<>>

\* Line 323: all_results
AllResultsToolsFirst(rr, tr) == tr \o rr

AllResults(rr, tr) == rr \o tr

\* Line 332: re.sub(TOOL_BLOCK_RE, "", assistant_text).strip()
Clean(text) == Strip(SubFrom(text, 1))

\* Lines 288, 335: the content of the assistant entry is assistant_text
StoredClean(text) == Clean(text)

Stored(text) == text

\* Replies of the generation backend
BotSegments == {"tool_echo", "tool_frob", "res_menu"}
Replies ==
    SeqsUpTo(BotSegments, MaxBlocks) \cup {<<"bad_json">>, <<"tool_echo_hi">>}
FinalReplies == {<<"prose">>, <<"prose", "tool_echo">>, <<"bad_nojson">>}

UserText == Content("user_input", <<"txt">>, <<>>, <<>>, <<>>)

Room(n) == Len(history) + n <= MaxHistory

\* What the client's /tools and /resources endpoints answer to main()
Listing(names) == [i \in DOMAIN names |-> [shape |-> "dict", name |-> names[i]]]
BotToolResponses ==
    [status : {"ok"},
     items : {Listing(<<>>), Listing(<<"echo">>)}]
        \cup [status : {"unreachable"}, items : {<<>>}]
BotResourceResponses ==
    [status : {"ok"}, items : {<<[uri |-> "restaurant://menu/today"]>>}]
        \cup [status : {"unreachable"}, items : {<<>>}]

BotFrame == UNCHANGED <<clientVars, listVars, ragVars, memVars>>

\* Time passes; only the discovery calls read the clock, so it is advanced
\* where the next step may be one
BotTick ==
    /\ pc \in {"loop", "input"}
    /\ Tick
    /\ UNCHANGED botVars
    /\ BotFrame

\* Line 247
StartTools ==
    /\ pc = "start"
    /\ \E resp \in BotToolResponses :
        LET d == discover_tools(ToolEntry, TRUE, clock, resp) IN
        /\ cached_tools' = d.entry.items
        /\ last_refresh' = d.entry.ts
        /\ tool_names' = d.ret
    /\ pc' = "start_resources"
    /\ UNCHANGED <<cached_resources, last_res_refresh, clock, lastDisc, history,
                   gen_blocks, assistant_text, resource_specs, tool_specs,
                   resource_results, tool_results, provider_calls, shown>>
    /\ BotFrame

\* Line 248
StartResources ==
    /\ pc = "start_resources"
    /\ \E resp \in BotResourceResponses :
        LET d == discover_resources(ResEntry, TRUE, clock, resp) IN
        /\ cached_resources' = d.entry.items
        /\ last_res_refresh' = d.entry.ts
    /\ pc' = "start_prompt"
    /\ UNCHANGED <<cached_tools, last_refresh, clock, lastDisc, tool_names, history,
                   gen_blocks, assistant_text, resource_specs, tool_specs,
                   resource_results, tool_results, provider_calls, shown>>
    /\ BotFrame

\* Lines 249-250
StartPrompt ==
    /\ pc = "start_prompt"
    /\ \E resp \in BotResourceResponses :
        LET b == build_system_prompt(tool_names, ResEntry, clock, resp) IN
        /\ cached_resources' = b.disc.entry.items
        /\ last_res_refresh' = b.disc.entry.ts
        /\ history' = <<Entry("system", b.text)>>
    /\ pc' = "loop"
    /\ UNCHANGED <<cached_tools, last_refresh, clock, lastDisc, tool_names,
                   gen_blocks, assistant_text, resource_specs, tool_specs,
                   resource_results, tool_results, provider_calls, shown>>
    /\ BotFrame

\* Line 256: set(new_tools) != set(tool_names)
SetChangedNever(new_tools, names) == FALSE

SetChanged(new_tools, names) == Range(new_tools) # Range(names)

\* Lines 255-263.  In main(), lastDisc is the outcome of the latest call of
\* discover_tools, here the one at the top of the iteration; it is cleared
\* once the iteration has read an input that makes no such call.
LoopTop ==
    /\ pc = "loop"
    /\ \E resp \in BotToolResponses :
        LET d == discover_tools(ToolEntry, FALSE, clock, resp)
            changed == SetChanged(d.ret, tool_names)
        IN
        /\ cached_tools' = d.entry.items
        /\ last_refresh' = d.entry.ts
        /\ lastDisc' = DiscRecord("tools", FALSE, d, OfferedTools(resp))
        /\ changed => Room(1)
        /\ tool_names' = IF changed THEN d.ret ELSE tool_names
        /\ history' = IF changed
                      THEN Append(history,
                               Entry("system",
                                     Content("tools_updated", <<>>,
                                             JoinOr(d.ret, "(none)"), <<>>, <<>>)))
                      ELSE history
    /\ pc' = "input"
    /\ UNCHANGED <<cached_resources, last_res_refresh, clock,
                   gen_blocks, assistant_text, resource_specs, tool_specs,
                   resource_results, tool_results, provider_calls, shown>>
    /\ BotFrame

\* Lines 265-271: end of input, or exit / quit / :q
InputExit ==
    /\ pc = "input"
    /\ pc' = "exit"
    /\ lastDisc' = NoDisc
    /\ UNCHANGED <<cached_tools, last_refresh, cached_resources,
                   last_res_refresh, clock, tool_names, history, gen_blocks,
                   assistant_text, resource_specs, tool_specs,
                   resource_results, tool_results, provider_calls, shown>>
    /\ BotFrame

\* The notice appended only when the refresh changed the set, as the
\* notice at the top of the loop is
ManualNoticeOnChange(names, before) ==
    IF SetChanged(names, before)
    THEN <<Entry("system",
                 Content("manual_update", <<>>, JoinOr(names, "(none)"),
                         <<>>, <<>>))>>
    ELSE <<>>

\* Lines 274-278: the entries the command appends to the history, given the
\* refreshed tool_names and the tool_names before the refresh
ManualNotice(names, before) ==
    <<Entry("system",
            Content("manual_update", <<>>, JoinOr(names, "(none)"),
                    <<>>, <<>>))>>

\* Lines 272-279: :refresh-tools
InputRefresh ==
    /\ pc = "input"
    /\ Room(1)
    /\ \E resp \in BotToolResponses :
        LET d == discover_tools(ToolEntry, TRUE, clock, resp) IN
        /\ cached_tools' = d.entry.items
        /\ last_refresh' = d.entry.ts
        /\ tool_names' = d.ret
        /\ history' = history \o ManualNotice(d.ret, tool_names)
        /\ lastDisc' = DiscRecord("tools", TRUE, d, OfferedTools(resp))
    /\ pc' = "loop"
    /\ UNCHANGED <<cached_resources, last_res_refresh, clock,
                   gen_blocks, assistant_text, resource_specs, tool_specs,
                   resource_results, tool_results, provider_calls, shown>>
    /\ BotFrame

\* Lines 280-281: an empty line
InputEmpty ==
    /\ pc = "input"
    /\ pc' = "loop"
    /\ lastDisc' = NoDisc
    /\ UNCHANGED <<cached_tools, last_refresh, cached_resources,
                   last_res_refresh, clock, tool_names, history, gen_blocks,
                   assistant_text, resource_specs, tool_specs,
                   resource_results, tool_results, provider_calls, shown>>
    /\ BotFrame

\* Line 283
InputUser ==
    /\ pc = "input"
    /\ Room(1)
    /\ history' = Append(history, Entry("user", UserText))
    /\ pc' = "generate"
    /\ lastDisc' = NoDisc
    /\ UNCHANGED <<cached_tools, last_refresh, cached_resources,
                   last_res_refresh, clock, tool_names, gen_blocks,
                   assistant_text, resource_specs, tool_specs,
                   resource_results, tool_results, provider_calls, shown>>
    /\ BotFrame

\* Lines 286-288: stream_chat prints the reply as it arrives and returns it
GenerateInitial ==
    /\ pc = "generate"
    /\ Room(1)
    /\ \E bs \in Replies :
        /\ gen_blocks' = bs
        /\ assistant_text' = Render(bs)
        /\ shown' = <<[pass |-> 1, text |-> Render(bs)]>>
        /\ history' = Append(history,
                          Entry("assistant",
                                Content("reply", Stored(Render(bs)),
                                        <<>>, <<>>, <<>>)))
    /\ pc' = "parse"
    /\ UNCHANGED <<cacheVars, tool_names, resource_specs, tool_specs,
                   resource_results, tool_results, provider_calls>>
    /\ BotFrame

\* Lines 296-304: one pass of the resource loop
DispatchResource ==
    /\ pc = "dispatch"
    /\ Len(resource_results) < Len(resource_specs)
    /\ LET uri == resource_specs[Len(resource_results) + 1].uri IN
       \E out \in CallOutcomes :
        /\ provider_calls' =
               Append(provider_calls,
                      [op |-> "read_resource", name |-> uri,
                       args |-> <<>>, idx |-> Len(resource_results) + 1,
                       out |-> out])
        /\ resource_results' = Append(resource_results, ResourceMessage(uri, out))
    /\ UNCHANGED <<cacheVars, pc, tool_names, history, gen_blocks,
                   assistant_text, resource_specs, tool_specs, tool_results,
                   shown>>
    /\ BotFrame

\* Lines 308-319: one pass of the tool loop
DispatchTool ==
    /\ pc = "dispatch"
    /\ Len(resource_results) = Len(resource_specs)
    /\ Len(tool_results) < Len(tool_specs)
    /\ LET tool == tool_specs[Len(tool_results) + 1].tool IN
       IF ~ToolKnown(tool, tool_names)
       THEN /\ tool_results' = Append(tool_results, NotAvailable(tool, tool_names))
            /\ UNCHANGED provider_calls
       ELSE \E out \in CallOutcomes :
            /\ provider_calls' =
                   Append(provider_calls,
                          [op |-> "call_tool", name |-> tool,
                           args |-> tool_specs[Len(tool_results) + 1].arguments,
                           idx |-> Len(tool_results) + 1, out |-> out])
            /\ tool_results' = Append(tool_results, ToolMessage(tool, out))
    /\ UNCHANGED <<cacheVars, pc, tool_names, history, gen_blocks,
                   assistant_text, resource_specs, tool_specs, resource_results,
                   shown>>
    /\ BotFrame

Dispatched ==
    /\ Len(resource_results) = Len(resource_specs)
    /\ Len(tool_results) = Len(tool_specs)

\* Line 322 when nothing was extracted: back to the top of the loop
NoDispatch ==
    /\ pc = "dispatch"
    /\ Dispatched
    /\ ~HasResults(resource_results, tool_results)
    /\ pc' = "loop"
    /\ UNCHANGED <<cacheVars, tool_names, history, gen_blocks, assistant_text,
                   resource_specs, tool_specs, resource_results, tool_results,
                   provider_calls, shown>>
    /\ BotFrame

\* Lines 322-328: the results are injected as one user-role message
Inject ==
    /\ pc = "dispatch"
    /\ Dispatched
    /\ HasResults(resource_results, tool_results)
    /\ Room(1)
    /\ history' = Append(history,
                      Entry("user",
                            Content("results", <<>>, <<>>, <<>>,
                                    AllResults(resource_results, tool_results))))
    /\ pc' = "finalize"
    /\ UNCHANGED <<cacheVars, tool_names, gen_blocks, assistant_text,
                   resource_specs, tool_specs, resource_results, tool_results,
                   provider_calls, shown>>
    /\ BotFrame

\* Line 335 is the last statement of the loop body: control goes back to the
\* top of the loop, line 255
AfterFinalReparses == "parse"

AfterFinal == "loop"

\* Lines 329-335: the finalization pass; stream_chat prints the reply as it
\* arrives, then the cleaned text is printed again when it differs
GenerateFinal ==
    /\ pc = "finalize"
    /\ Room(1)
    /\ \E bs \in FinalReplies :
        /\ gen_blocks' = bs
        /\ assistant_text' = Render(bs)
        /\ shown' = Append(shown, [pass |-> 2, text |-> Render(bs)])
                       \o (IF Clean(Render(bs)) # Render(bs)
                           THEN <<[pass |-> 2, text |-> Clean(Render(bs))]>>
                           ELSE <<>>)
        /\ history' = Append(history,
                          Entry("assistant",
                                Content("reply", Stored(Render(bs)),
                                        <<>>, <<>>, <<>>)))
    /\ pc' = AfterFinal
    /\ UNCHANGED <<cacheVars, tool_names, resource_specs, tool_specs,
                   resource_results, tool_results, provider_calls>>
    /\ BotFrame

Init == CacheInit /\ BotInit /\ pc = "start" /\ ClientInit /\ ListInit /\ RagInit /\ MemInit

Next ==
    \/ BotTick
    \/ StartTools
    \/ StartResources
    \/ StartPrompt
    \/ LoopTop
    \/ InputExit
    \/ InputRefresh
    \/ InputEmpty
    \/ InputUser
    \/ GenerateInitial
    \/ ParseReply /\ UNCHANGED <<cacheVars, clientVars, listVars, ragVars, memVars>>
    \/ DispatchResource
    \/ DispatchTool
    \/ NoDispatch
    \/ Inject
    \/ GenerateFinal

Spec == Init /\ [][Next]_vars

\* Lines 337-339: KeyboardInterrupt raised in the loop, at a point where
\* main() waits for input, for the generation backend or for the client:
\* the handler prints a line and calls sys.exit(0)
Interrupt ==
    /\ pc \in {"loop", "input", "generate", "dispatch", "finalize"}
    /\ pc' = "interrupted"
    /\ UNCHANGED <<cacheVars, tool_names, history, gen_blocks, assistant_text,
                   resource_specs, tool_specs, resource_results, tool_results,
                   provider_calls, shown>>
    /\ BotFrame

\* mcp_client.py after it served its first request: one transport and one
\* session open, the handshake done
ConnectedInit ==
    /\ http_cm = 1
    /\ session_cm = 1
    /\ session = 1
    /\ transports = [i \in ConnIds |-> IF i = 1 THEN "open" ELSE "unused"]
    /\ sessions = [i \in ConnIds |-> IF i = 1 THEN "ready" ELSE "unused"]
    /\ nextId = 2
    /\ hnd = [h \in Handlers |-> IdleHandler]
    /\ opLog = NoOp
    /\ sdLog = NoShutdown

InitCancel == CacheInit /\ BotInit /\ pc = "start" /\ ConnectedInit /\ ListInit /\ RagInit /\ MemInit

NextCancel == Next \/ Interrupt

SpecCancel == InitCancel /\ [][NextCancel]_vars

(***************************************************************************)
(* Claims about the parser.                                                *)
(***************************************************************************)
SegmentTool(b) ==
    CASE b = "tool_echo" -> "echo"
      [] b = "tool_search" -> "search"
      [] b = "tool_frob" -> "frobnicate"
      [] b = "tool_echo_hi" -> "echo"

SegmentArgs(b) ==
    IF b = "tool_echo_hi" THEN <<"{", "message:", "hi", "}">> ELSE <<"{", "}">>

IsToolSegment(b) == b \in WellFormedTool
IsResSegment(b) == b \in WellFormedRes

\* The well-formed requests of a reply, in textual order
ExpectedTools(bs) ==
    [i \in DOMAIN SelectSeq(bs, IsToolSegment) |->
        [tool |-> SegmentTool(SelectSeq(bs, IsToolSegment)[i]),
         arguments |-> SegmentArgs(SelectSeq(bs, IsToolSegment)[i])]]

ExpectedReads(bs) ==
    [i \in DOMAIN SelectSeq(bs, IsResSegment) |-> [uri |-> "restaurant://menu/today"]]

\* C2: from a text of N well-formed and M malformed fenced blocks the
\* extraction returns exactly the N well-formed requests, in textual order,
\* whatever malformed blocks precede or follow them.
C2_ExtractsEveryWellFormedBlock ==
    (pc = "dispatch" /\ Range(gen_blocks) \cap (Ambiguous \cup NoArguments) = {}) =>
        /\ tool_specs = ExpectedTools(gen_blocks)
        /\ resource_specs = ExpectedReads(gen_blocks)

(***************************************************************************)
(* Claims about the discovery cache.                                       *)
(***************************************************************************)
IsDiscoveryCall == lastDisc'.seq # lastDisc.seq

\* C3: a failed refresh, forced or not, returns the previously cached list
\* and leaves the items and the fetched-at timestamp of the entry as they
\* were before the call.
C3_FailedRefreshKeepsEntry ==
    [][(IsDiscoveryCall /\ lastDisc'.failed) =>
          /\ ToolEntry' = ToolEntry
          /\ ResEntry' = ResEntry
          /\ lastDisc'.kind = "tools" => lastDisc'.ret = cached_tools
          /\ lastDisc'.kind = "resources" => lastDisc'.ret = cached_resources]_vars

C3_Witness ==
    /\ lastDisc.kind = "tools"
    /\ lastDisc.failed
    /\ lastDisc.force
    /\ cached_tools # <<>>
    /\ cached_resources # <<>>

\* C4: a non-forced tool discovery contacts the provider if and only if no
\* entry was ever fetched or the entry is at least ttl old; an entry fetched
\* at t, empty or not, is served without a round trip before t + ttl.
C4_NonForcedContactsIffExpired ==
    [][(IsDiscoveryCall /\ lastDisc'.kind = "tools" /\ ~lastDisc'.force) =>
          (lastDisc'.contacted <=>
              \/ last_refresh = 0
              \/ clock - last_refresh >= MCP_TOOL_TTL)]_vars

\* C23: two consecutive forced tool refreshes that are answered with listings
\* of the same tools, in whatever order and with whatever duplicates, return
\* the same ordered list and leave the same list in the cache.
C23_ForcedRefreshIdempotent ==
    [][(IsDiscoveryCall /\ lastDisc'.kind = "tools" /\ lastDisc'.again) =>
          /\ lastDisc'.ret = lastDisc.ret
          /\ cached_tools' = cached_tools]_vars

C23_Witness ==
    /\ lastDisc.kind = "tools"
    /\ lastDisc.again
    /\ lastDisc.offered.names = {"echo", "search"}
    /\ lastDisc.ret = <<"echo", "search">>
    /\ cached_tools = <<"echo", "search">>

\* Where a string stands in the order of Python's str comparison
Pos(x) == CHOOSE i \in DOMAIN SortedUniverse : SortedUniverse[i] = x

StrictlyAscending(xs) ==
    \A i, j \in DOMAIN xs : i < j => Pos(xs[i]) < Pos(xs[j])

\* An entry changes only in a successful refresh of its kind, which stores
\* the names read from that one response and the time of the call
ReplacedByRefresh(kind, entry, entryAfter) ==
    entryAfter # entry =>
        /\ IsDiscoveryCall
        /\ lastDisc'.kind = kind
        /\ lastDisc'.contacted
        /\ ~lastDisc'.failed
        /\ Range(entryAfter.items) = lastDisc'.offered.names
        /\ entryAfter.ts = clock

EntriesNormalised ==
    /\ StrictlyAscending(cached_tools)
    /\ StrictlyAscending(cached_resources)
    /\ last_refresh = 0 => cached_tools = <<>>
    /\ last_res_refresh = 0 => cached_resources = <<>>

\* C26: each cache entry always holds a strictly ascending list, the initial
\* empty one or the normalisation of a single successful response; items and
\* fetched-at change only together, in a successful refresh.
C26_EntriesReplacedAtomically ==
    /\ []EntriesNormalised
    /\ [][/\ ReplacedByRefresh("tools", ToolEntry, ToolEntry')
          /\ ReplacedByRefresh("resources", ResEntry, ResEntry')]_vars

C26_Witness ==
    /\ cached_tools = <<"echo", "search">>
    /\ last_refresh = MaxTime
    /\ cached_resources = <<"restaurant://menu/today", "restaurant://menu/{date}">>
    /\ last_res_refresh < last_refresh
    /\ lastDisc.kind = "tools"
    /\ lastDisc.contacted
    /\ ~lastDisc.failed

\* C30: the two cache entries are independent: a tool refresh, successful or
\* failed, leaves the resource items and fetched-at as they were, and a
\* resource refresh leaves the tool items and fetched-at as they were.
C30_CacheEntriesIndependent ==
    [][IsDiscoveryCall =>
          /\ lastDisc'.kind = "tools" => ResEntry' = ResEntry
          /\ lastDisc'.kind = "resources" => ToolEntry' = ToolEntry]_vars

C30_Witness ==
    /\ lastDisc.kind = "resources"
    /\ lastDisc.contacted
    /\ ~lastDisc.failed
    /\ cached_resources = <<"restaurant://menu/{date}">>
    /\ cached_tools = <<"echo">>
    /\ last_refresh < last_res_refresh

(***************************************************************************)
(* mcp_client.py: ensure_session, the endpoints and shutdown.  Handlers    *)
(* are coroutines on one event loop: each action is the code between two   *)
(* awaits, and a context manager is named by the number of the             *)
(* transport/session pair it belongs to (0 is None).                       *)
(***************************************************************************)
Ops == {"tools", "resources", "read_resource", "call_tool"}

ClientFrame == UNCHANGED <<cacheVars, botVars, listVars, ragVars, memVars>>

\* hnd[h].res is the response handler h sent in the step just taken, and
\* opLog the provider operation invoked in it: once the step is over the
\* response is with its caller
Settled ==
    [h \in Handlers |-> IF hnd[h].pc = "idle" THEN IdleHandler ELSE hnd[h]]

\* The endpoint after ensure_session returned: await app.state.session.<op>()
\* (lines 87, 111, 154, 170); with session None the attribute access raises
\* and the endpoint answers 500 without any provider operation.  Every
\* endpoint runs ensure_session alike, so which one the handler serves is
\* drawn here, where it first matters.
InvokeOp(h, sess) ==
    IF session = 0
    THEN /\ hnd' = [Settled EXCEPT ![h] = Idle("err500")]
         /\ opLog' = NoOp
    ELSE /\ hnd' = [Settled EXCEPT ![h].pc = "op", ![h].cls = session]
         /\ \E op \in Ops :
                opLog' = [op |-> op, sess |-> session, st |-> sess[session]]

\* Lines 29-30: if app.state.session is not None: return
AlreadyConnectedNever(s) == FALSE

AlreadyConnected(s) == s # 0

\* Lines 28-33: the handler enters the endpoint and runs ensure_session up to
\* its first await.  Handlers are interchangeable coroutines: a request is
\* taken by the first idle one.
StartRequest(h) ==
    /\ hnd[h].pc = "idle"
    /\ \A g \in Handlers : g < h => hnd[g].pc # "idle"
    /\ IF AlreadyConnected(session)
       THEN /\ InvokeOp(h, sessions)
            /\ UNCHANGED <<http_cm, session_cm, session, transports, sessions, nextId>>
       ELSE /\ nextId <= MaxConn
            /\ http_cm' = nextId
            /\ transports' = [transports EXCEPT ![nextId] = "created"]
            /\ nextId' = nextId + 1
            /\ hnd' = [Settled EXCEPT ![h] = [pc |-> "http_enter", obj |-> nextId,
                                          cls |-> 0, closed |-> <<>>,
                                          res |-> "none"]]
            /\ opLog' = NoOp
            /\ UNCHANGED <<session_cm, session, sessions>>
    /\ sdLog' = [sdLog EXCEPT !.n = 0]
    /\ ClientFrame

\* Lines 42-57: the except clause up to its first await
BeginCleanup(h) ==
    /\ IF session_cm # 0
       THEN /\ sessions' = [sessions EXCEPT ![session_cm] = "closed"]
            /\ hnd' = [Settled EXCEPT ![h].pc = "cl_session", ![h].cls = session_cm,
                                  ![h].closed = <<"session">>]
            /\ UNCHANGED <<http_cm, session, transports>>
       ELSE IF http_cm # 0
       THEN /\ transports' = [transports EXCEPT ![http_cm] = "closed"]
            /\ hnd' = [Settled EXCEPT ![h].pc = "cl_http", ![h].cls = http_cm,
                                  ![h].closed = <<"transport">>]
            /\ UNCHANGED <<http_cm, session, sessions>>
       ELSE /\ session' = 0
            /\ hnd' = [Settled EXCEPT ![h] = Idle("err502")]
            /\ UNCHANGED <<http_cm, transports, sessions>>
    /\ sdLog' = [sdLog EXCEPT !.opFailed = @ /\ session' # 0]
    /\ opLog' = NoOp
    /\ UNCHANGED <<session_cm, nextId>>

\* Lines 33-40: the transport's __aenter__ returned or raised
HttpEntered(h) ==
    /\ hnd[h].pc = "http_enter"
    /\ \/ /\ transports' = [transports EXCEPT ![hnd[h].obj] =
                               IF @ = "created" THEN "open" ELSE @]
          /\ session_cm' = hnd[h].obj
          /\ sessions' = [sessions EXCEPT ![hnd[h].obj] = "created"]
          /\ hnd' = [Settled EXCEPT ![h].pc = "session_enter"]
          /\ opLog' = NoOp
          /\ UNCHANGED <<http_cm, session, nextId, sdLog>>
       \/ BeginCleanup(h)
    /\ ClientFrame

\* Lines 40-41: the session's __aenter__ returned or raised
SessionEntered(h) ==
    /\ hnd[h].pc = "session_enter"
    /\ \/ /\ sessions' = [sessions EXCEPT ![hnd[h].obj] =
                             IF @ = "created" THEN "open" ELSE @]
          /\ session' = hnd[h].obj
          /\ hnd' = [Settled EXCEPT ![h].pc = "initialize"]
          /\ opLog' = NoOp
          /\ UNCHANGED <<http_cm, session_cm, transports, nextId, sdLog>>
       \/ BeginCleanup(h)
    /\ ClientFrame

\* Line 41 and the endpoint's call: initialize() returned or raised; the
\* handshake succeeds only over a transport and a session that are open
Initialized(h) ==
    /\ hnd[h].pc = "initialize"
    /\ \/ /\ transports[hnd[h].obj] = "open"
          /\ sessions[hnd[h].obj] = "open"
          /\ sessions' = [sessions EXCEPT ![hnd[h].obj] = "ready"]
          /\ InvokeOp(h, sessions')
          /\ UNCHANGED <<http_cm, session_cm, session, transports, nextId, sdLog>>
       \/ BeginCleanup(h)
    /\ ClientFrame

\* Lines 47-54: the session's __aexit__ returned or raised (swallowed)
CleanupSessionClosed(h) ==
    /\ hnd[h].pc = "cl_session"
    /\ session_cm' = 0
    /\ IF http_cm # 0
       THEN /\ transports' = [transports EXCEPT ![http_cm] = "closed"]
            /\ hnd' = [Settled EXCEPT ![h].pc = "cl_http", ![h].cls = http_cm,
                                  ![h].closed = Append(@, "transport")]
            /\ UNCHANGED session
       ELSE /\ session' = 0
            /\ hnd' = [Settled EXCEPT ![h] = Idle("err502")]
            /\ UNCHANGED transports
    /\ sdLog' = [sdLog EXCEPT !.opFailed = @ /\ session' # 0]
    /\ opLog' = NoOp
    /\ UNCHANGED <<http_cm, sessions, nextId>>
    /\ ClientFrame

\* Lines 53-57: the transport's __aexit__ returned or raised (swallowed)
CleanupHttpClosed(h) ==
    /\ hnd[h].pc = "cl_http"
    /\ http_cm' = 0
    /\ session' = 0
    /\ hnd' = [Settled EXCEPT ![h] = Idle("err502")]
    /\ sdLog' = [sdLog EXCEPT !.opFailed = FALSE]
    /\ opLog' = NoOp
    /\ UNCHANGED <<session_cm, transports, sessions, nextId>>
    /\ ClientFrame

\* Lines 87-100, 154-163, 170-173: the provider operation returned or
\* raised; logged says whether a failure is recorded in opFailed
OpReturns(h, logged) ==
    /\ hnd[h].pc = "op"
    /\ \/ /\ sessions[hnd[h].cls] = "ready"
          /\ hnd' = [Settled EXCEPT ![h] = Idle("ok")]
          /\ UNCHANGED sdLog
       \/ /\ hnd' = [Settled EXCEPT ![h] = Idle("err500")]
          /\ sdLog' = [sdLog EXCEPT !.opFailed = logged /\ (@ \/ session # 0)]
    /\ opLog' = NoOp
    /\ UNCHANGED <<http_cm, session_cm, session, transports, sessions, nextId>>
    /\ ClientFrame

OpReturned(h) == OpReturns(h, FALSE)

OpReturnedLogged(h) == OpReturns(h, TRUE)

\* Lines 64-65, 71-72: "except Exception: pass"
Propagates(raised) == FALSE

\* Lines 59-73: shutdown, run by the server once no handler is in flight;
\* sRaises and tRaises say whether each __aexit__ raises
Shutdown ==
    /\ \A h \in Handlers : hnd[h].pc = "idle"
    /\ \E sRaises \in BOOLEAN, tRaises \in BOOLEAN :
        LET doS == session_cm # 0
            abortS == doS /\ Propagates(sRaises)
            doT == ~abortS /\ http_cm # 0
            abortT == doT /\ Propagates(tRaises)
        IN /\ sessions' = IF doS THEN [sessions EXCEPT ![session_cm] = "closed"]
                          ELSE sessions
           /\ session_cm' = IF doS /\ ~abortS THEN 0 ELSE session_cm
           /\ session' = IF doS /\ ~abortS THEN 0 ELSE session
           /\ transports' = IF doT THEN [transports EXCEPT ![http_cm] = "closed"]
                            ELSE transports
           /\ http_cm' = IF doT /\ ~abortT THEN 0 ELSE http_cm
           /\ sdLog' = [n |-> IF sdLog.n < 2 THEN sdLog.n + 1 ELSE 2,
                        closed |-> (IF doS THEN <<"session">> ELSE <<>>)
                                      \o (IF doT THEN <<"transport">> ELSE <<>>),
                        raised |-> abortS \/ abortT,
                        opFailed |-> FALSE]
    /\ hnd' = Settled
    /\ opLog' = NoOp
    /\ UNCHANGED nextId
    /\ ClientFrame

InitClient == CacheInit /\ BotInit /\ pc = "idle" /\ ClientInit /\ ListInit /\ RagInit /\ MemInit

NextClient ==
    \/ \E h \in Handlers : StartRequest(h)
    \/ \E h \in Handlers : HttpEntered(h)
    \/ \E h \in Handlers : SessionEntered(h)
    \/ \E h \in Handlers : Initialized(h)
    \/ \E h \in Handlers : CleanupSessionClosed(h)
    \/ \E h \in Handlers : CleanupHttpClosed(h)
    \/ \E h \in Handlers : OpReturned(h)
    \/ Shutdown

SpecClient == InitClient /\ [][NextClient]_vars

\* The client with the failures of provider operations recorded
NextClientLogged ==
    \/ \E h \in Handlers : StartRequest(h)
    \/ \E h \in Handlers : HttpEntered(h)
    \/ \E h \in Handlers : SessionEntered(h)
    \/ \E h \in Handlers : Initialized(h)
    \/ \E h \in Handlers : CleanupSessionClosed(h)
    \/ \E h \in Handlers : CleanupHttpClosed(h)
    \/ \E h \in Handlers : OpReturnedLogged(h)
    \/ Shutdown

SpecClientLogged == InitClient /\ [][NextClientLogged]_vars

(***************************************************************************)
(* mcp_client.py: the /resources endpoint (lines 104-145), and              *)
(* discover_resources of ollama_bot.py applied to its answer.  A listed    *)
(* object is the value of getattr(r, "uri") or getattr(r, "uri_template"): *)
(* a URI, or "" for None.                                                  *)
(***************************************************************************)
ListedURIs == ProviderURIs \cup {""}

\* Lines 113-119, 125-131: one item per listed object, with its type
Tagged(xs, type) == [i \in DOMAIN xs |-> [uri |-> xs[i], type |-> type]]

\* Line 135: key = (it.get("uri"), it.get("type"))
KeyOf(it) == <<it.uri, it.type>>

\* Lines 132-140: the items whose key was not seen before, in order
RECURSIVE Dedup(_, _)
Dedup(items, seen) ==
    IF items = <<>> THEN <<>>
    ELSE IF KeyOf(Head(items)) \in seen THEN Dedup(Tail(items), seen)
    ELSE <<Head(items)>> \o Dedup(Tail(items), seen \cup {KeyOf(Head(items))})

\* Lines 108-141: the body of resources()
resources(rs, ts) == Dedup(Tagged(rs, "resource") \o Tagged(ts, "template"), {})

\* What raises while the endpoint runs: nothing, ensure_session (line 106),
\* list_resources (line 110) or list_resource_templates (line 120)
Raises == {"none", "session", "resources", "templates"}

\* The endpoint that answers with what it gathered before the template
\* listing raised
resources_response_partial(rs, ts, raised) ==
    IF raised = "none"
    THEN [status |-> "ok", items |-> resources(rs, ts), raised |-> raised]
    ELSE IF raised = "templates"
    THEN [status |-> "ok", items |-> resources(rs, <<>>), raised |-> raised]
    ELSE [status |-> "http_error", items |-> <<>>, raised |-> raised]

\* Lines 104-145: GET /resources answers the deduplicated listing, or 500
\* when a provider operation raises anywhere in the try block (502 when
\* ensure_session does); the answer records what raised
resources_response(rs, ts, raised) ==
    IF raised = "none"
    THEN [status |-> "ok", items |-> resources(rs, ts), raised |-> raised]
    ELSE [status |-> "http_error", items |-> <<>>, raised |-> raised]

ServeResources ==
    /\ pc = "serve"
    /\ \E raised \in Raises :
           listed' = resources_response(res_list, tmpl_list, raised)
    /\ pc' = "discover"
    /\ UNCHANGED <<cacheVars, tool_names, history, gen_blocks, assistant_text,
                   resource_specs, tool_specs, resource_results, tool_results,
                   provider_calls, shown, clientVars, res_list, tmpl_list,
                   ragVars, memVars>>

\* ollama_bot.py lines 248 and 99: discover_resources, past its cache test,
\* on that answer
DiscoverListed ==
    /\ pc = "discover"
    /\ LET d == discover_resources(ResEntry, TRUE, clock, listed) IN
        /\ cached_resources' = d.entry.items
        /\ last_res_refresh' = d.entry.ts
    /\ pc' = "listed"
    /\ UNCHANGED <<cached_tools, last_refresh, clock, lastDisc, tool_names,
                   history, gen_blocks, assistant_text, resource_specs,
                   tool_specs, resource_results, tool_results, provider_calls,
                   shown, clientVars, listVars, ragVars, memVars>>

InitResources ==
    /\ CacheInit
    /\ BotInit
    /\ ClientInit
    /\ pc = "serve"
    /\ res_list \in SeqsUpTo(ListedURIs, MaxListLen)
    /\ tmpl_list \in SeqsUpTo(ListedURIs, MaxListLen)
    /\ listed = NoListing
    /\ RagInit
    /\ MemInit

\* ollama_bot.py lines 99 and 71-74: a later build_system_prompt calls
\* discover_resources(force=False), which returns the cache while it is
\* fresh and asks the endpoint again otherwise
Rediscover ==
    /\ pc = "listed"
    /\ \E now \in clock..MaxTime :
        /\ clock' = now
        /\ pc' = IF ServedFromCache(ResEntry, FALSE, now) THEN "listed" ELSE "serve"
    /\ UNCHANGED <<cached_tools, last_refresh, cached_resources,
                   last_res_refresh, lastDisc, tool_names, history, gen_blocks,
                   assistant_text, resource_specs, tool_specs, resource_results,
                   tool_results, provider_calls, shown, clientVars, listVars, ragVars, memVars>>

NextResources == ServeResources \/ DiscoverListed \/ Rediscover

SpecResources == InitResources /\ [][NextResources]_vars

(***************************************************************************)
(* mcp_server.py: the RAG index.  _initialize_rag_database runs            *)
(* synchronously; the data files change outside it, between two calls or   *)
(* between its check of the files and its scan of them.                    *)
(***************************************************************************)
RagFrame == UNCHANGED <<cacheVars, botVars, clientVars, listVars, memVars>>

Present(files) == {f \in FileNames : files[f].present}

\* Lines 59-68: a digest of the content and the modification time
get_file_hash(file) == [md5 |-> file.ver]

\* Lines 76-82: one hash per text file of the data directory
current_hashes(files) == [f \in Present(files) |-> get_file_hash(files[f])]

\* Lines 138-165: one document per text file, read at the scan
Documents(files) == {[source |-> f, ver |-> files[f].ver] : f \in Present(files)}

\* A data file is written (created or rewritten) or deleted
ChangeFile ==
    /\ \E f \in FileNames :
        \/ /\ data_files[f].ver < MaxVersion
           /\ data_files' = [data_files EXCEPT
                                ![f] = [ver |-> @.ver + 1, present |-> TRUE]]
        \/ /\ data_files[f].present
           /\ data_files' = [data_files EXCEPT ![f].present = FALSE]
    /\ rag_ret' = NoRet
    /\ UNCHANGED <<file_hashes, collection_cache, store, rag_pc>>
    /\ RagFrame

\* Lines 85-89: _check_files_changed stores the current hashes and says
\* whether they differ from the stored ones
check_files_changed(hashes, files) ==
    [changed |-> hashes # current_hashes(files), hashes |-> current_hashes(files)]

\* Lines 91-114: the call up to its decision.  With no change and a cached
\* collection it returns what get_collection finds in the store; when
\* get_collection raises, or otherwise, it goes on to rebuild.
CheckFiles ==
    /\ rag_pc = "idle"
    /\ LET c == check_files_changed(file_hashes, data_files) IN
        /\ file_hashes' = c.hashes
        /\ IF ~c.changed /\ collection_cache # "None"
           THEN \/ /\ store.exists
                   /\ rag_ret' = [result |-> "cached", docs |-> store.docs]
                   /\ rag_pc' = "idle"
                \/ /\ rag_ret' = NoRet
                   /\ rag_pc' = "rebuild"
           ELSE /\ rag_ret' = NoRet
                /\ rag_pc' = "rebuild"
    /\ UNCHANGED <<data_files, collection_cache, store>>
    /\ RagFrame

\* Lines 116-187: the rebuild.  deleted says whether delete_collection
\* succeeded (its exception is swallowed); fails names the call that raises
\* into the outer except clause, which returns None.  create_collection
\* raises on a name that is still taken.
Rebuild ==
    /\ rag_pc = "rebuild"
    /\ \E deleted \in BOOLEAN, fails \in {"none", "create", "add"} :
        LET afterDelete == IF deleted THEN NoCollection ELSE store
            docs == Documents(data_files)
        IN
        IF afterDelete.exists \/ fails = "create"
        THEN /\ store' = afterDelete
             /\ rag_ret' = [result |-> "failed", docs |-> {}]
             /\ UNCHANGED collection_cache
        ELSE IF docs # {} /\ fails = "add"
        THEN /\ store' = [exists |-> TRUE, docs |-> {}]
             /\ rag_ret' = [result |-> "failed", docs |-> {}]
             /\ UNCHANGED collection_cache
        ELSE /\ store' = [exists |-> TRUE, docs |-> docs]
             /\ collection_cache' = "collection"
             /\ rag_ret' = [result |-> "rebuilt", docs |-> docs]
    /\ rag_pc' = "idle"
    /\ UNCHANGED <<data_files, file_hashes>>
    /\ RagFrame

\* Lines 231-236: _refresh_rag_database
RefreshRag ==
    /\ rag_pc = "idle"
    /\ collection_cache' = "None"
    /\ file_hashes' = NoHashes
    /\ rag_ret' = NoRet
    /\ UNCHANGED <<data_files, store, rag_pc>>
    /\ RagFrame

InitRag ==
    /\ CacheInit
    /\ BotInit
    /\ pc = "idle"
    /\ ClientInit
    /\ res_list = <<>>
    /\ tmpl_list = <<>>
    /\ listed = NoListing
    /\ RagInit
    /\ MemInit

NextRag == ChangeFile \/ CheckFiles \/ Rebuild \/ RefreshRag

SpecRag == InitRag /\ [][NextRag]_vars

(***************************************************************************)
(* testBot.py: the chatbot with long-term memory.  An exchange is a user   *)
(* line and its answer, named by its number and carrying the word counts   *)
(* of both; a summary is named by the exchanges of the transcript it was   *)
(* made from.                                                              *)
(***************************************************************************)
MemFrame == UNCHANGED <<cacheVars, botVars, clientVars, listVars, ragVars>>

\* Line 16
WINDOW_TOKENS == 4096

\* Words in a user line and in an answer
Words == {10, 1600}

\* Line 39: int(len(text.split()) / 0.75)
num_tokens(words) == (words * 4) \div 3

\* Lines 104-106: the words of "Utente: q\nAssistente: a" joined by newlines
RECURSIVE TranscriptWords(_)
TranscriptWords(h) ==
    IF h = <<>> THEN 0
    ELSE 2 + Head(h).uw + Head(h).aw + TranscriptWords(Tail(h))

\* Line 114: transcript + user + answer, joined with nothing between them,
\* so that the words on both sides of a junction count as one
ConcatWords(tw, uw, aw) ==
    LET pieces == Cardinality({i \in 1..3 : <<tw, uw, aw>>[i] > 0})
    IN tw + uw + aw - (IF pieces > 1 THEN pieces - 1 ELSE 0)

Covered(h) == {h[i].id : i \in DOMAIN h}

\* Lines 41-47: the summary of a transcript
summarize(h) == [covers |-> Covered(h)]

\* Lines 50-54: one line appended to the memory file
save_long_term(file, memory) == Append(file, memory)

\* Lines 56-62: the last three lines of the memory file
load_long_term(file) ==
    IF Len(file) <= 3 THEN file ELSE SubSeq(file, Len(file) - 2, Len(file))

\* Lines 98-119: one iteration of the loop of main(), for a line that is
\* not exit or quit.  An exception of call_ollama ends main().
Turn ==
    /\ mem_pc = "running"
    /\ turns < MaxTurns
    /\ \E uw \in Words, aw \in Words,
          raises \in {"none", "answer", "summary"} :
        LET tw == TranscriptWords(chat_history)
            exchange == [id |-> turns + 1, uw |-> uw, aw |-> aw]
            total_tokens == num_tokens(ConcatWords(tw, uw, aw))
            summary == summarize(chat_history)
        IN
        IF raises = "answer"
        THEN /\ mem_pc' = "stopped"
             /\ compaction' = NoCompaction
             /\ UNCHANGED <<chat_history, long_memory, memory_file>>
        ELSE IF total_tokens > WINDOW_TOKENS
        THEN IF raises = "summary"
             THEN /\ chat_history' = Append(chat_history, exchange)
                  /\ mem_pc' = "stopped"
                  /\ compaction' = NoCompaction
                  /\ UNCHANGED <<long_memory, memory_file>>
             ELSE /\ memory_file' = save_long_term(memory_file, summary)
                  /\ long_memory' = load_long_term(memory_file')
                  /\ chat_history' = <<>>
                  /\ compaction' =
                         [happened |-> TRUE,
                          removed |-> Covered(Append(chat_history, exchange)),
                          passed |-> summary.covers]
                  /\ UNCHANGED mem_pc
        ELSE /\ chat_history' = Append(chat_history, exchange)
             /\ compaction' = NoCompaction
             /\ UNCHANGED <<long_memory, memory_file, mem_pc>>
    /\ turns' = turns + 1
    /\ MemFrame

\* Lines 99-102: exit or quit
Exit ==
    /\ mem_pc = "running"
    /\ mem_pc' = "stopped"
    /\ compaction' = NoCompaction
    /\ UNCHANGED <<chat_history, long_memory, memory_file, turns>>
    /\ MemFrame

\* Lines 92-96: main() is run again; the memory file is still on disk
Restart ==
    /\ mem_pc = "stopped"
    /\ chat_history' = <<>>
    /\ long_memory' = load_long_term(memory_file)
    /\ mem_pc' = "running"
    /\ compaction' = NoCompaction
    /\ UNCHANGED <<memory_file, turns>>
    /\ MemFrame

InitMemory ==
    /\ CacheInit
    /\ BotInit
    /\ pc = "idle"
    /\ ClientInit
    /\ res_list = <<>>
    /\ tmpl_list = <<>>
    /\ listed = NoListing
    /\ RagInit
    /\ MemInit

NextMemory == Turn \/ Exit \/ Restart

SpecMemory == InitMemory /\ [][NextMemory]_vars

(***************************************************************************)
(* Claims about the client's session.                                      *)
(***************************************************************************)
OpenTransports == {i \in ConnIds : transports[i] = "open"}
OpenSessions == {i \in ConnIds : sessions[i] \in {"open", "ready"}}

\* The step in which handler h answers 502 out of ensure_session
Surfaces502(h) == hnd[h].pc # "idle" /\ hnd'[h].pc = "idle" /\ hnd'[h].res = "err502"

\* C5: when a failed ensure_session surfaces its connection error, no
\* transport or session that call opened is left open, and session,
\* session context and transport context are all None.
C5_FailedSetupFullyUndone ==
    [][\A h \in Handlers :
          Surfaces502(h) =>
              /\ session' = 0 /\ session_cm' = 0 /\ http_cm' = 0
              /\ hnd[h].obj \notin OpenTransports'
              /\ hnd[h].obj \notin OpenSessions']_vars

\* C6: under any interleaving of handlers at most one transport and one
\* session are open and not yet closed.
C6_AtMostOnePairOpen ==
    /\ Cardinality(OpenTransports) <= 1
    /\ Cardinality(OpenSessions) <= 1

\* C7: a provider operation is only ever invoked on a session whose
\* initialize handshake has completed.
C7_OperationsOnlyOnReadySession ==
    opLog.op # "none" => opLog.st = "ready"

IsShutdown == sdLog'.n = sdLog.n + 1

\* C8: shutdown closes the session before the transport, never raises,
\* closes the transport even when closing the session raised, leaves
\* session, session context and transport context None, and a second
\* shutdown closes nothing and changes nothing.
C8_ShutdownTearsDownAll ==
    [][IsShutdown =>
          /\ ~sdLog'.raised
          /\ session' = 0 /\ session_cm' = 0 /\ http_cm' = 0
          /\ session_cm # 0 => sessions'[session_cm] = "closed"
          /\ http_cm # 0 => transports'[http_cm] = "closed"
          /\ (session_cm # 0 /\ http_cm # 0) =>
                 sdLog'.closed = <<"session", "transport">>
          /\ sdLog.n >= 1 =>
                 /\ sdLog'.closed = <<>>
                 /\ UNCHANGED <<http_cm, session_cm, session, transports,
                                sessions>>]_vars

(***************************************************************************)
(* Claims about the orchestrator's turn.                                   *)
(***************************************************************************)
UnknownAt(i) == tool_specs[i].tool \notin Range(tool_names)

CalledFor(i) ==
    \E k \in DOMAIN provider_calls :
        provider_calls[k].op = "call_tool" /\ provider_calls[k].idx = i

\* C1: a tool-call request whose tool name is not among the names known at
\* dispatch time causes no call_tool request to the provider and yields an
\* error result saying the tool is not available and listing the valid names,
\* or "(none)" when there are none.
C1_UnknownToolNeverCalled ==
    pc \in {"dispatch", "finalize"} =>
        /\ \A i \in DOMAIN tool_results :
              UnknownAt(i) =>
                  /\ ~CalledFor(i)
                  /\ tool_results[i].kind = "tool_not_available"
                  /\ tool_results[i].name = tool_specs[i].tool
                  /\ tool_results[i].valid =
                         (IF tool_names = <<>> THEN <<"(none)">> ELSE tool_names)
        /\ \A k \in DOMAIN provider_calls :
              provider_calls[k].op = "call_tool" =>
                  provider_calls[k].name \in Range(tool_names)

C1_Witness ==
    /\ pc = "finalize"
    /\ tool_names = <<"echo">>
    /\ Len(tool_specs) = 2
    /\ tool_specs[1].tool = "frobnicate"
    /\ tool_specs[2].tool = "echo"
    /\ tool_results[1].kind = "tool_not_available"
    /\ tool_results[2].kind = "tool_result"

Injected == history[Len(history)].content.results

ResultKinds(n) ==
    IF n <= Len(ExpectedReads(gen_blocks))
    THEN {"resource_content", "resource_error"}
    ELSE {"tool_result", "tool_error", "tool_not_available"}

RequestNames ==
    [i \in DOMAIN ExpectedReads(gen_blocks) |-> ExpectedReads(gen_blocks)[i].uri]
        \o [i \in DOMAIN ExpectedTools(gen_blocks) |->
               ExpectedTools(gen_blocks)[i].tool]

\* C9: the injected message holds exactly one result per extracted request:
\* the resource-read results first, in extraction order, then the tool-call
\* results in extraction order, whichever provider calls failed.
C9_ResultsResourcesThenTools ==
    pc = "finalize" =>
        /\ Len(Injected) = Len(RequestNames)
        /\ \A n \in DOMAIN Injected :
              /\ Injected[n].name = RequestNames[n]
              /\ Injected[n].kind \in ResultKinds(n)

C9_Witness ==
    /\ pc = "finalize"
    /\ gen_blocks = <<"tool_echo", "res_menu">>
    /\ Len(Injected) = 2
    /\ Injected[1].kind = "resource_content"
    /\ Injected[2].kind = "tool_error"

HasFencedBlock(text) ==
    \E i \in 1..(Len(text) - 1) : text[i] = "FENCE" /\ text[i + 1] = "mcp"

\* C10: after a non-empty dispatch batch, nothing displayed to the user for
\* the final pass contains a fenced mcp block, even when the final reply of
\* the generator contains one.
C10_FinalPassShowsNoBlock ==
    \A k \in DOMAIN shown :
        shown[k].pass = 2 => ~HasFencedBlock(shown[k].text)

KindAt(i) == history[i].content.kind

TurnOver == pc \in {"loop", "input", "exit"}

AppendOnly ==
    /\ Len(history') >= Len(history)
    /\ SubSeq(history', 1, Len(history)) = history

UserEntries == {i \in DOMAIN history : KindAt(i) = "user_input"}

\* The requests extracted from the first reply of the turn in progress
Extracted == Len(resource_specs) + Len(tool_specs)

\* Entries i + 1 .. i + n are the given kinds, and no entry after them
\* belongs to a turn
TurnIs(i, kinds) ==
    /\ Len(history) >= i + Len(kinds)
    /\ \A k \in DOMAIN kinds :
          /\ KindAt(i + k) = kinds[k]
          /\ history[i + k].role = IF kinds[k] = "reply" THEN "assistant" ELSE "user"
    /\ \A j \in (i + Len(kinds) + 1)..Len(history) :
          KindAt(j) \notin {"reply", "results", "user_input"}

\* The shape of the latest turn; the earlier ones are held by AppendOnly
TurnShape ==
    IF UserEntries = {}
    THEN \A j \in DOMAIN history : KindAt(j) \notin {"reply", "results"}
    ELSE LET i == CHOOSE x \in UserEntries : \A y \in UserEntries : y <= x IN
         /\ pc = "generate" => TurnIs(i, <<>>)
         /\ pc \in {"parse", "dispatch"} => TurnIs(i, <<"reply">>)
         /\ pc = "finalize" => Extracted >= 1 /\ TurnIs(i, <<"reply", "results">>)
         /\ TurnOver =>
               IF Extracted >= 1
               THEN TurnIs(i, <<"reply", "results", "reply">>)
               ELSE TurnIs(i, <<"reply">>)

\* C11: the transcript is append-only, and after the user entry a completed
\* turn has appended the raw reply, the injected results and the final reply,
\* in that order, when a request was extracted, and the reply alone when none
\* was.
C11_TranscriptAppendOnly == [][AppendOnly]_vars /\ []TurnShape

C11_Witness ==
    /\ pc = "loop"
    /\ Len(history) = 5
    /\ KindAt(2) = "user_input"
    /\ KindAt(3) = "reply"
    /\ KindAt(4) = "results"
    /\ KindAt(5) = "reply"

ResultOf(c) ==
    IF c.op = "read_resource" THEN resource_results[c.idx]
    ELSE tool_results[c.idx]

ErrorKindOf(c) ==
    IF c.op = "read_resource" THEN "resource_error" ELSE "tool_error"

InjectedAt(c) ==
    IF c.op = "read_resource" THEN Injected[c.idx]
    ELSE Injected[Len(resource_results) + c.idx]

FailedCalls == {k \in DOMAIN provider_calls : ~provider_calls[k].out.ok}

FailuresCaptured ==
    /\ pc \in {"dispatch", "finalize"} =>
          \A k \in FailedCalls :
              /\ ResultOf(provider_calls[k]).kind = ErrorKindOf(provider_calls[k])
              /\ ResultOf(provider_calls[k]).name = provider_calls[k].name
              /\ ResultOf(provider_calls[k]).detail = provider_calls[k].out.detail
    /\ pc = "finalize" =>
          /\ Dispatched
          /\ \A i \in DOMAIN resource_specs :
                \E k \in DOMAIN provider_calls :
                    /\ provider_calls[k].op = "read_resource"
                    /\ provider_calls[k].idx = i
          /\ \A i \in DOMAIN tool_specs : ~UnknownAt(i) => CalledFor(i)
          /\ \A k \in FailedCalls :
                InjectedAt(provider_calls[k]) = ResultOf(provider_calls[k])

DispatchGoesOn ==
    (pc = "dispatch" /\ FailedCalls # {}) => pc' \in {"dispatch", "finalize"}

\* C12: a failed tool call or resource read becomes the error result of that
\* one request, the other requests of the batch are still dispatched, the
\* error text is part of the injected message, and the turn goes on to the
\* finalization pass.
C12_FailureBecomesErrorResult == []FailuresCaptured /\ [][DispatchGoesOn]_vars

C12_Witness ==
    /\ pc = "finalize"
    /\ Len(provider_calls) = 2
    /\ provider_calls[1].op = "read_resource"
    /\ ~provider_calls[1].out.ok
    /\ provider_calls[2].op = "call_tool"
    /\ provider_calls[2].out.ok
    /\ Injected[1].kind = "resource_error"
    /\ Injected[2].kind = "tool_result"

ReadFor(i) ==
    \E k \in DOMAIN provider_calls :
        provider_calls[k].op = "read_resource" /\ provider_calls[k].idx = i

\* C13: a resource-read request whose URI is not in the cached resource set
\* is answered with a corrective not-available message, as an unknown tool
\* is, without a read of the provider.
C13_UnknownResourceCorrected ==
    pc \in {"dispatch", "finalize"} =>
        \A i \in DOMAIN resource_results :
            resource_specs[i].uri \notin Range(cached_resources) =>
                /\ ~ReadFor(i)
                /\ resource_results[i].kind = "resource_not_available"

OnlyToolsAndAmbiguous(bs) ==
    \A i \in DOMAIN bs : bs[i] \in WellFormedTool \cup Ambiguous \cup {"prose"}

IsRequestSegment(b) == b \in WellFormedTool \cup Ambiguous

ToolOfSegment(b) == IF b \in Ambiguous THEN "echo" ELSE SegmentTool(b)

\* C14: a block with a valid string tool, object arguments and a resource key
\* yields exactly one request, a tool call, and no resource read.
C14_ToolAndResourceIsOneToolCall ==
    (pc = "dispatch" /\ OnlyToolsAndAmbiguous(gen_blocks)) =>
        /\ resource_specs = <<>>
        /\ tool_specs =
               [i \in DOMAIN SelectSeq(gen_blocks, IsRequestSegment) |->
                   [tool |-> ToolOfSegment(SelectSeq(gen_blocks, IsRequestSegment)[i]),
                    arguments |-> SegmentArgs(SelectSeq(gen_blocks, IsRequestSegment)[i])]]

\* The blocks of a reply that are a JSON object with a string tool and an
\* object arguments, as tool calls in textual order
ShapedToolCalls(bs) ==
    [i \in DOMAIN SelectSeq(bs, IsRequestSegment) |->
        [tool |-> ToolOfSegment(SelectSeq(bs, IsRequestSegment)[i]),
         arguments |-> SegmentArgs(SelectSeq(bs, IsRequestSegment)[i])]]

\* Every fence of the reply closes the block it opens
BlocksClosed(bs) == "bad_nobrace" \notin Range(bs)

\* C27: a fenced block is extracted as a tool call if and only if its body is
\* a JSON object with a string tool and an object arguments; a block with a
\* string tool and no arguments key, or with arguments that is null, a list
\* or a string, yields no tool call.
C27_ToolCallIffToolAndArguments ==
    (pc = "dispatch" /\ BlocksClosed(gen_blocks)) =>
        tool_specs = ShapedToolCalls(gen_blocks)

NoEntry == [items |-> <<>>, ts |-> 0]

SameTextWhateverTheCache ==
    pc = "start_prompt" =>
        \A r1, r2 \in BotResourceResponses :
            build_system_prompt(tool_names, ResEntry, clock, r1).text
                = build_system_prompt(tool_names, NoEntry, clock, r2).text

BuilderLeavesCaches ==
    pc = "start_prompt" =>
        UNCHANGED <<cached_tools, last_refresh, cached_resources, last_res_refresh>>

\* C15: building the instruction makes no provider round trip, changes
\* neither cache entry nor its timestamp, and gives the same text for the
\* same tool-name list whatever the resource cache or the provider holds.
C15_PromptBuilderIsPure == [][BuilderLeavesCaches]_vars /\ []SameTextWhateverTheCache

NothingExtracted == pc = "dispatch" /\ tool_specs = <<>> /\ resource_specs = <<>>

FirstReplyIsFinal ==
    NothingExtracted =>
        /\ pc' = "loop"
        /\ UNCHANGED <<history, provider_calls, shown, assistant_text>>

NoCallYet ==
    NothingExtracted =>
        /\ provider_calls = <<>>
        /\ shown = <<[pass |-> 1, text |-> assistant_text]>>
        /\ KindAt(Len(history)) = "reply"

\* C16: when the first reply of a turn yields no request the turn ends after
\* that reply: no provider call, no injected message, no second generation.
C16_NoRequestsEndsTurn == [][FirstReplyIsFinal]_vars /\ []NoCallYet

C16_Witness ==
    /\ pc = "loop"
    /\ gen_blocks = <<"bad_json">>
    /\ tool_specs = <<>> /\ resource_specs = <<>>
    /\ provider_calls = <<>>
    /\ Len(shown) = 1
    /\ KindAt(Len(history)) = "reply"
    /\ KindAt(Len(history) - 1) = "user_input"

NamingKinds ==
    {"system_prompt", "system_prompt_no_tools", "tools_updated", "manual_update"}

Max(S) == CHOOSE x \in S : \A y \in S : y <= x

\* The latest entry of the transcript that tells the generator its tools
LastNaming ==
    history[Max({i \in DOMAIN history : KindAt(i) \in NamingKinds})].content

SaysNone(c) ==
    \/ c.kind = "system_prompt_no_tools"
    \/ c.kind \in {"tools_updated", "manual_update"} /\ c.names = <<"(none)">>

Started == pc \notin {"start", "start_resources", "start_prompt"}

\* last_refresh is 0 exactly as long as no tool discovery has succeeded
NeverDiscovered == Started /\ last_refresh = 0

NoToolsWhenNeverDiscovered ==
    NeverDiscovered =>
        /\ cached_tools = <<>>
        /\ tool_names = <<>>
        /\ KindAt(1) = "system_prompt_no_tools"

\* The discovery at the top of this iteration failed
DiscoveryFailed == pc = "input" /\ lastDisc.contacted /\ lastDisc.failed

ProceedsWithCache ==
    DiscoveryFailed =>
        /\ lastDisc.ret = cached_tools
        /\ Range(tool_names) = Range(cached_tools)
        /\ cached_tools = <<>> => SaysNone(LastNaming)

ToldNoneWhenEmpty ==
    (pc = "generate" /\ tool_names = <<>>) => SaysNone(LastNaming)

FailedDiscoveryKeepsGoing ==
    (pc = "loop" /\ IsDiscoveryCall /\ lastDisc'.contacted /\ lastDisc'.failed) =>
        /\ pc' = "input"
        /\ UNCHANGED <<cached_tools, last_refresh, tool_names, history>>

NamesOf(c) == IF c.kind = "system_prompt_no_tools" THEN <<"(none)">> ELSE c.names

\* The tool names the transcript gives when entry i is appended: every
\* assignment to tool_names comes with an entry naming the new list
SetAt(i) ==
    NamesOf(history[Max({j \in 1..(i - 1) : KindAt(j) \in NamingKinds})].content)

TranscriptNamesKnownTools ==
    pc = "generate" =>
        SetAt(Len(history)) = (IF tool_names = <<>> THEN <<"(none)">> ELSE tool_names)

\* "Updated available MCP tools: ... Use only these names in MCP blocks."
InstructsOnly(j, names) ==
    /\ history[j].role = "system"
    /\ KindAt(j) = "tools_updated"
    /\ history[j].content.names = names

\* C18: when the known tool-name set differs from the one of the previous
\* turn, a system notice naming the new set and telling the generator to use
\* only those names stands in the transcript between the previous turn and
\* the new user entry, hence before the next generation call.
C18_ChangedToolSetIsAnnounced ==
    (pc = "generate" /\ Cardinality(UserEntries) >= 2) =>
        LET i == Len(history)
            p == Max(UserEntries \ {i})
        IN SetAt(p) # SetAt(i) =>
               \E j \in (p + 1)..(i - 1) : InstructsOnly(j, SetAt(i))

ToolCallsFor(i) ==
    {k \in DOMAIN provider_calls :
        provider_calls[k].op = "call_tool" /\ provider_calls[k].idx = i}

KnownAt(i) == ExpectedTools(gen_blocks)[i].tool \in Range(tool_names)

KnownToolCalledOnce ==
    pc \in {"dispatch", "finalize"} =>
        \A i \in DOMAIN tool_results :
            KnownAt(i) =>
                /\ Cardinality(ToolCallsFor(i)) = 1
                /\ \A k \in ToolCallsFor(i) :
                      /\ provider_calls[k].name = ExpectedTools(gen_blocks)[i].tool
                      /\ provider_calls[k].args =
                             ExpectedTools(gen_blocks)[i].arguments
                      /\ provider_calls[k].out = [ok |-> TRUE, detail |-> "hi"] =>
                             tool_results[i] =
                                 Result("tool_result", provider_calls[k].name,
                                        "\"hi\"", <<>>)

KnownToolResultInjected ==
    pc = "finalize" =>
        /\ Len(tool_results) = Len(ExpectedTools(gen_blocks))
        /\ KindAt(Len(history)) = "results"
        /\ \A i \in DOMAIN tool_results :
              KnownAt(i) => Injected[Len(resource_results) + i] = tool_results[i]

FinalAnswerRequested ==
    /\ (pc = "dispatch" /\ pc' # "dispatch"
        /\ \E i \in DOMAIN tool_results : KnownAt(i)) => pc' = "finalize"
    /\ pc = "finalize" =>
          /\ pc' = "loop"
          /\ Len(history') = Len(history) + 1
          /\ KindAt(Len(history))' = "reply"
          /\ provider_calls' = provider_calls

\* C20: for a tool-call block naming a known tool the provider is called
\* exactly once, with the block's name and arguments; a successful result is
\* injected as the tool-result message carrying the JSON text of the payload
\* (the payload hi gives the quoted text "hi"); the final answer is then
\* requested, with no further provider call.
C20_KnownToolCalledAndInjected ==
    /\ [](KnownToolCalledOnce /\ KnownToolResultInjected)
    /\ [][FinalAnswerRequested]_vars

C20_Witness ==
    /\ pc = "loop"
    /\ tool_names = <<"echo">>
    /\ Len(history) = 5
    /\ history[3].content.text = Render(<<"tool_echo_hi">>)
    /\ provider_calls =
           << [op |-> "call_tool", name |-> "echo",
               args |-> <<"{", "message:", "hi", "}">>, idx |-> 1,
               out |-> [ok |-> TRUE, detail |-> "hi"]] >>
    /\ history[4].content.results =
           <<Result("tool_result", "echo", "\"hi\"", <<>>)>>
    /\ KindAt(5) = "reply"

FailureKinds == {"tool_not_available", "tool_error", "resource_error"}

EveryDispatchFailed ==
    /\ Dispatched
    /\ resource_results \o tool_results # <<>>
    /\ \A i \in DOMAIN (resource_results \o tool_results) :
          (resource_results \o tool_results)[i].kind \in FailureKinds

FailedBatchIsInjected ==
    (pc = "dispatch" /\ EveryDispatchFailed) =>
        /\ pc' = "finalize"
        /\ history' = Append(history,
                          Entry("user",
                                Content("results", <<>>, <<>>, <<>>,
                                        resource_results \o tool_results)))

FailedBatchIsFinalized ==
    (pc = "finalize" /\ EveryDispatchFailed) =>
        /\ pc' = "loop"
        /\ Len(history') = Len(history) + 1
        /\ history'[Len(history')].role = "assistant"
        /\ history'[Len(history')].content.text = assistant_text'
        /\ SubSeq(history', 1, Len(history)) = history

\* C21: a batch in which every dispatch failed (unknown tools, provider
\* errors) is not empty: its error results are injected as one user-role
\* message, the finalization pass runs and its reply is appended.
C21_FailedBatchStillFinalized ==
    [][FailedBatchIsInjected /\ FailedBatchIsFinalized]_vars

C21_Witness ==
    /\ pc = "loop"
    /\ Len(history) = 5
    /\ tool_names = <<"echo">>
    /\ provider_calls = <<>>
    /\ history[4].role = "user"
    /\ history[4].content.results =
           <<Result("tool_not_available", "frobnicate", "", <<"echo">>)>>
    /\ history[5].role = "assistant"
    /\ KindAt(5) = "reply"

ToolLists == SeqsUpTo(ProviderTools, MaxListLen)

PromptFor(tools, resp) ==
    build_system_prompt(tools, ResEntry, clock, resp).text

\* The prompt for an empty list: the no-tools variant, in which the block
\* pattern matches nothing
IsNoToolsVariant(c) ==
    /\ c.kind = "system_prompt_no_tools"
    /\ <<"FENCE", "mcp", "FENCE">> = SubSeq(c.text, 4, 6)
    /\ FindAll(c.text) = <<>>

\* The prompt for a list of tools: every name is in it, and so are a block
\* that parses as a tool call and a block that parses as a resource read
IsToolsVariant(c, tools) ==
    /\ c.kind = "system_prompt"
    /\ Range(tools) \subseteq Range(c.text)
    /\ parse_tool_call(c.text) # <<>>
    /\ parse_resource_read(c.text) # <<>>

\* C24: the instruction built for an empty tool list is the variant that
\* says no tools are available and forbids fenced blocks, with no block
\* example in it; the one built for a non-empty list holds every given tool
\* name and the fenced-block syntax of a tool call and of a resource read.
C24_PromptVariantFollowsToolList ==
    /\ [](pc = "start_prompt" =>
             \A resp \in BotResourceResponses :
                /\ IsNoToolsVariant(PromptFor(<<>>, resp))
                /\ \A tools \in ToolLists \ {<<>>} :
                      IsToolsVariant(PromptFor(tools, resp), tools))
    /\ [][pc = "start_prompt" =>
             IF tool_names = <<>>
             THEN IsNoToolsVariant(history'[1].content)
             ELSE IsToolsVariant(history'[1].content, tool_names)]_vars

C24_Witness ==
    /\ pc = "loop"
    /\ Len(history) = 1
    /\ tool_names = <<"echo">>
    /\ history[1].content.kind = "system_prompt"
    /\ "echo" \in Range(history[1].content.text)
    /\ parse_tool_call(history[1].content.text)[1].tool = "<TOOL_NAME>"
    /\ parse_resource_read(history[1].content.text)
           = <<[uri |-> "restaurant://menu/today"]>>

SessionTornDown ==
    /\ session = 0
    /\ session_cm = 0
    /\ http_cm = 0
    /\ OpenSessions = {}
    /\ OpenTransports = {}

NothingAfterCancellation ==
    pc = "interrupted" =>
        UNCHANGED <<history, provider_calls, shown, resource_results,
                    tool_results, cacheVars>>

\* C25: once the loop is cancelled by an interrupt, at whatever point it was
\* waiting, the client's session is torn down as shutdown leaves it, and no
\* result is injected, no transcript entry appended and no provider or
\* generation call made afterwards.
C25_CancellationTearsDownSession ==
    /\ [](pc = "interrupted" => SessionTornDown)
    /\ [][NothingAfterCancellation]_vars

\* The entries of the turn that the user entry i opens
TurnOf(i) ==
    {j \in (i + 1)..Len(history) :
        \A k \in UserEntries : k > i => j < k}

TurnsBounded ==
    \A i \in UserEntries :
        /\ Cardinality({j \in TurnOf(i) : KindAt(j) = "reply"}) <= 2
        /\ Cardinality({j \in TurnOf(i) : KindAt(j) = "results"}) <= 1

\* The final reply is stored and control is back at the top of the loop,
\* with the requests and the provider calls of the turn as they were
FinalReplyEndsTurn ==
    pc = "finalize" =>
        /\ pc' = "loop"
        /\ UNCHANGED <<tool_specs, resource_specs, tool_results,
                       resource_results, provider_calls>>

\* Between two turns nothing is parsed or dispatched, and the next control
\* point is the input prompt
AwaitsInputBetweenTurns ==
    pc \in {"loop", "input"} =>
        /\ UNCHANGED <<tool_specs, resource_specs, tool_results,
                       resource_results, provider_calls>>
        /\ pc = "loop" => pc' \in {"loop", "input"}

\* C28: a turn has at most one dispatch cycle and at most two generation
\* calls; blocks in the finalization reply are neither parsed nor
\* dispatched, and after that reply the loop is back at awaiting input.
C28_OneDispatchCyclePerTurn ==
    /\ []TurnsBounded
    /\ [][FinalReplyEndsTurn /\ AwaitsInputBetweenTurns]_vars

C28_Witness ==
    /\ pc = "input"
    /\ Len(history) = 5
    /\ gen_blocks = <<"prose", "tool_echo">>
    /\ history[5].content.text = Render(<<"prose", "tool_echo">>)
    /\ KindAt(4) = "results"
    /\ Len(provider_calls) = 1
    /\ Len(tool_specs) = 1

\* A generation step appends an assistant entry whose text is the output of
\* the generator, fenced blocks included
ReplyStoredAsGenerated ==
    (pc \in {"generate", "finalize"} /\ history' # history) =>
        /\ history' = Append(history, history'[Len(history')])
        /\ history'[Len(history')].role = "assistant"
        /\ history'[Len(history')].content.text = Render(gen_blocks')
        /\ history'[Len(history')].content.text = assistant_text'

\* C29: the first and the final reply of a turn are stored in the transcript
\* exactly as generated; residual fenced blocks are stripped from the
\* displayed text only.
C29_RepliesStoredUnstripped == [][ReplyStoredAsGenerated]_vars

C29_Witness ==
    /\ pc = "loop"
    /\ Len(history) = 5
    /\ history[3].content.text = Render(<<"tool_echo">>)
    /\ history[5].content.text = Render(<<"prose", "tool_echo">>)
    /\ Clean(history[5].content.text) # history[5].content.text
    /\ shown[Len(shown)].text = Clean(history[5].content.text)

\* C31: once startup has run its discovery, and so at every dispatch step,
\* the tool names main() validates tool calls against are the names the
\* discovery cache holds.
C31_ValidationSetIsCachedSet ==
    pc # "start" =>
        /\ Range(tool_names) = Range(cached_tools)
        /\ tool_names = cached_tools

C31_Witness ==
    /\ pc = "dispatch"
    /\ KindAt(1) = "system_prompt_no_tools"
    /\ KindAt(2) = "tools_updated"
    /\ tool_names = <<"echo">>
    /\ cached_tools = <<"echo">>
    /\ Len(tool_results) = 1
    /\ tool_results[1].kind = "tool_result"

(***************************************************************************)
(* Further claims about the client.                                        *)
(***************************************************************************)
EntersEndpoint(h) == hnd[h].pc = "idle" /\ hnd'[h].pc # "idle"

EnsureSessionIsNoOp ==
    \A h \in Handlers :
        (EntersEndpoint(h) /\ session # 0) =>
            /\ UNCHANGED <<http_cm, session_cm, session, transports, sessions,
                           nextId>>
            /\ hnd'[h].pc = "op"
            /\ hnd'[h].obj = 0

\* C19: ensure_session called while a session is established opens no
\* transport, creates no session, makes no handshake and leaves the
\* connection state fields as they are.
C19_EnsureSessionNoOpWhenConnected == [][EnsureSessionIsNoOp]_vars

C19_Witness ==
    /\ session = 1
    /\ nextId = 2
    /\ sessions[1] = "ready"
    /\ \E h \in Handlers : hnd[h].pc = "op" /\ hnd[h].obj = 0


Keys(items) == {KeyOf(items[i]) : i \in DOMAIN items}

Merged == Tagged(res_list, "resource") \o Tagged(tmpl_list, "template")

FirstIndex(items, key) == Min({k \in DOMAIN items : KeyOf(items[k]) = key})

\* The listing has one item per key of the merged lists, each key's first
\* occurrence, in the order of the first occurrences
ListingDeduplicated ==
    (pc \in {"discover", "listed"} /\ listed.status = "ok") =>
        /\ Keys(listed.items) = Keys(Merged)
        /\ Cardinality(Keys(listed.items)) = Len(listed.items)
        /\ \A i, j \in DOMAIN listed.items :
              i < j => FirstIndex(Merged, KeyOf(listed.items[i]))
                          < FirstIndex(Merged, KeyOf(listed.items[j]))

\* The discovered set has one entry per (uri, kind) key that has a URI
DiscoveredKeyedByUriAndKind ==
    (pc = "listed" /\ listed.status = "ok") =>
        Len(cached_resources) =
            Cardinality({k \in Keys(listed.items) : k[1] # ""})

\* C22: the resource listing merges resources and templates into one list
\* with no two items of the same (uri, kind) key, keeping first occurrences,
\* and two items of one URI and different kinds are distinct entries of the
\* discovered resource set.
C22_ResourcesKeyedByUriAndKind ==
    ListingDeduplicated /\ DiscoveredKeyedByUriAndKind

Quiescent == \A h \in Handlers : hnd[h].pc = "idle"

\* Line 77: "connected": app.state.session is not None
Connected == session # 0

\* C32: whenever no ensure_session and no shutdown is in progress, session
\* set implies session context set, session context set implies transport
\* context set, and the reported connected flag is true exactly when all
\* three are set.
C32_ConnectionFieldsConsistent ==
    Quiescent =>
        /\ session # 0 => session_cm # 0
        /\ session_cm # 0 => http_cm # 0
        /\ Connected <=> (session # 0 /\ session_cm # 0 /\ http_cm # 0)


\* The step in which the provider operation of handler h raises while a
\* session is set, and the endpoint answers 500
OpFails(h) ==
    /\ hnd[h].pc = "op"
    /\ hnd'[h].pc = "idle"
    /\ hnd'[h].res = "err500"
    /\ session # 0

FailureLeavesConnection ==
    \A h \in Handlers :
        OpFails(h) =>
            /\ UNCHANGED <<http_cm, session_cm, session, transports, sessions>>
            /\ Connected'

\* From a failed operation until the next shutdown the session stays set,
\* nothing is opened and an entering request goes straight to its operation
NoReconnectionAfterFailure ==
    (sdLog.opFailed /\ ~IsShutdown) =>
        /\ Connected'
        /\ nextId' = nextId
        /\ \A h \in Handlers : EntersEndpoint(h) => hnd'[h].pc = "op"

\* C33: when a provider operation fails on an established session the
\* endpoint answers an error and the connection state is unchanged: the
\* session stays marked connected, nothing is closed, every later
\* ensure_session is a no-op and nothing reconnects until shutdown.
C33_OperationFailureKeepsConnection ==
    [][FailureLeavesConnection /\ NoReconnectionAfterFailure]_vars


\* The step in which handler h runs a part of the except clause of its
\* ensure_session (lines 42-57)
Cleans(h) ==
    /\ hnd[h].pc \in {"http_enter", "session_enter", "initialize",
                      "cl_session", "cl_http"}
    /\ hnd'[h] # hnd[h]
    /\ \/ hnd'[h].pc \in {"cl_session", "cl_http"}
       \/ hnd'[h].res = "err502"

ClosedInStep(objs) == {i \in ConnIds : objs[i] # "closed" /\ objs'[i] = "closed"}

\* What the step closes or clears is what handler h itself created
CleansOnlyOwn(h) ==
    /\ ClosedInStep(transports) \subseteq {hnd[h].obj}
    /\ ClosedInStep(sessions) \subseteq {hnd[h].obj}
    /\ (session # 0 /\ session' = 0) => session = hnd[h].obj
    /\ (session_cm # 0 /\ session_cm' = 0) => session_cm = hnd[h].obj
    /\ (http_cm # 0 /\ http_cm' = 0) => http_cm = hnd[h].obj

\* C34: under concurrent ensure_session calls the failure cleanup of one
\* call closes only the transport and session that call opened, and never
\* closes or clears a session another caller established or is establishing.
C34_CleanupClosesOnlyOwn ==
    [][\A h \in Handlers : Cleans(h) => CleansOnlyOwn(h)]_vars


NotConnected == session = 0 /\ session_cm = 0 /\ http_cm = 0

\* A shutdown, or an ensure_session that failed, leaves the three fields None
BackToNotConnected ==
    (IsShutdown \/ \E h \in Handlers : Surfaces502(h)) => NotConnected'

\* An endpoint call made while not connected starts a setup on a transport
\* that did not exist before
FreshSetup ==
    \A h \in Handlers :
        (EntersEndpoint(h) /\ NotConnected) =>
            /\ hnd'[h].pc = "http_enter"
            /\ transports[hnd'[h].obj] = "unused"
            /\ sessions[hnd'[h].obj] = "unused"
            /\ transports'[hnd'[h].obj] = "created"

\* The step in which the handshake of handler h's ensure_session completes
SetupSucceeds(h) ==
    /\ hnd[h].pc = "initialize"
    /\ sessions[hnd[h].obj] # "ready"
    /\ sessions'[hnd[h].obj] = "ready"

ExactlyOnePairOpen ==
    \A h \in Handlers :
        SetupSucceeds(h) =>
            /\ OpenTransports' = {hnd[h].obj}
            /\ OpenSessions' = {hnd[h].obj}

\* C35: after shutdown or a failed ensure_session the client is in its
\* initial not-connected state and the next endpoint call makes a complete
\* fresh setup; a successful ensure_session leaves exactly one open
\* transport/session pair.
C35_FreshSetupAndOnePair ==
    [][BackToNotConnected /\ FreshSetup /\ ExactlyOnePairOpen]_vars


\* An answer of the endpoint is the whole listing or an error without items
AllOrNothing ==
    pc \in {"discover", "listed"} =>
        /\ listed.raised # "none" =>
               (listed.status = "http_error" /\ listed.items = <<>>)
        /\ listed.status = "ok" => Keys(listed.items) = Keys(Merged)

\* discover_resources on an error answer keeps the cached items
CacheKeptOnListingError ==
    (pc = "discover" /\ pc' = "listed" /\ listed.raised # "none") =>
        cached_resources' = cached_resources

\* C36: the resource listing is all-or-nothing: when the concrete-resource
\* listing or the template listing fails the endpoint reports an error with
\* no partial list, and the orchestrator's resource cache keeps its previous
\* items rather than storing the concrete resources alone.
C36_ListingAllOrNothing ==
    []AllOrNothing /\ [][CacheKeptOnListingError]_vars

C36_Witness ==
    /\ pc = "listed"
    /\ listed.raised = "templates"
    /\ res_list = <<"restaurant://menu/today">>
    /\ tmpl_list = <<"restaurant://menu/{date}">>
    /\ cached_resources = <<"restaurant://menu/today", "restaurant://menu/{date}">>


\* The steps in which the line read is :refresh-tools, and in which it is
\* empty
RefreshCommand == pc = "input" /\ pc' = "loop" /\ lastDisc'.force

EmptyLine == pc = "input" /\ pc' = "loop" /\ ~lastDisc'.force

NoTurnStarted ==
    /\ pc' # "generate"
    /\ UNCHANGED <<gen_blocks, assistant_text, resource_specs, tool_specs,
                   resource_results, tool_results, provider_calls, shown>>

RefreshAppendsOneNotice ==
    RefreshCommand =>
        /\ lastDisc'.kind = "tools"
        /\ lastDisc'.contacted
        /\ tool_names' = lastDisc'.ret
        /\ Len(history') = Len(history) + 1
        /\ SubSeq(history', 1, Len(history)) = history
        /\ history'[Len(history')].role = "system"
        /\ history'[Len(history')].content.kind = "manual_update"
        /\ history'[Len(history')].content.names = JoinOr(tool_names', "(none)")
        /\ NoTurnStarted

EmptyLineDoesNothing ==
    EmptyLine =>
        /\ NoTurnStarted
        /\ UNCHANGED <<history, tool_names, cached_tools, last_refresh,
                       cached_resources, last_res_refresh>>

\* C37: the manual refresh command makes a forced tool refresh, appends
\* exactly one system-role notice naming the resulting tool set whether or
\* not the set changed, and starts no turn: no user entry, no generation and
\* no dispatch; an empty input line appends nothing and calls nothing.
C37_ManualRefreshAppendsNotice ==
    [][RefreshAppendsOneNotice /\ EmptyLineDoesNothing]_vars

\* A refresh that found the set it started with, and its notice
C37_Witness ==
    /\ pc = "loop"
    /\ lastDisc.force
    /\ lastDisc.contacted
    /\ ~lastDisc.failed
    /\ Len(history) = 2
    /\ KindAt(1) = "system_prompt"
    /\ history[1].content.names = <<"echo">>
    /\ KindAt(2) = "manual_update"
    /\ history[2].content.names = <<"echo">>
    /\ tool_names = <<"echo">>


\* C38: whenever the RAG index initialisation returns the cached collection
\* without rebuilding, the documents of that collection were built from the
\* current set of data files, whatever file changes and failed rebuilds
\* came before: a stale or empty index is never served as up to date.
C38_CachedIndexIsCurrent ==
    rag_ret.result = "cached" => rag_ret.docs = Documents(data_files)

\* C39: when the token estimate exceeds the window and the short history is
\* reset, every exchange removed from it, the one just completed included,
\* was part of the text passed to the summariser, and the long-term memory
\* then loaded is at most the three most recent summaries.
C39_CompactionLosesNoExchange ==
    compaction.happened =>
        /\ chat_history = <<>>
        /\ compaction.removed \subseteq compaction.passed
        /\ Len(long_memory) <= 3
        /\ long_memory = SubSeq(memory_file,
                                Max({1, Len(memory_file) - 2}),
                                Len(memory_file))

====
